---- MODULE Spec2Model ----
(***************************************************************************)
(* Query classification, sentence limiting, price extraction, context      *)
(* assembly, treatment-name matching and response formatting of the RAG    *)
(* chatbot utilities (src/pattern_matching.py, src/text_processing.py,     *)
(* src/document_utils.py, src/response_formatter.py, src/utils.py).        *)
(*                                                                         *)
(* A Python str is a sequence of one-character strings.  A compiled        *)
(* regular expression is a tree of records, and Match runs it the way      *)
(* Python's backtracking engine does (greedy and lazy repetition,          *)
(* alternatives in order, capture groups), so that group(1) is the text    *)
(* Python captures and not merely some text that could be captured.        *)
(***************************************************************************)
EXTENDS Integers, Sequences, FiniteSets, TLC

VARIABLES
    query,          \* the query string handed to the classifier
    classification, \* the QueryClassification of query, once done
    text,           \* the text handed to ensure_sentence_limit
    max_sentences,  \* its max_sentences argument
    limited,        \* the result of ensure_sentence_limit, once done, and of applying it again
    docs,           \* the batch handed to extract_price_info
    doc_idx,        \* number of documents of the batch already processed
    price_info,     \* the dict built so far (insertion ordered)
    rules,          \* per processed document, the set of cascade rules that ran
    ctx_docs,       \* the documents handed to format_retrieved_context
    ctx_type,       \* its doc_type argument (None or a string)
    context,        \* the context_parts, the joined text and the returned string, once done
    name_a,         \* the first treatment name handed to the matcher
    name_b,         \* the second treatment name
    normalized,     \* normalize_treatment_name of name_a, and of that result again
    matched,        \* the result of treatments_match(name_a, name_b), once done
    norm_cache,     \* the lru_cache of the memoized normalize_treatment_name
    norm_log,       \* the calls made to the memoized normalize_treatment_name
    match_cache,    \* the lru_cache of the memoized treatments_match of utils.py
    match_log,      \* the calls made to treatments_match, plain and memoized
    draft,          \* the response text handed to a formatter step
    price_map,      \* the price_info dict handed to format_price_response
    sentence_cap,   \* the max_sentences argument of format_response
    arg_treatment,  \* the treatment handed to format_direct_price_response
    arg_price,      \* the price handed to format_direct_price_response
    response,       \* the step that ran, whether it raised, and what it returned
    in_maintenance_mode,  \* app_state["in_maintenance_mode"]
    caches,         \* the entries <<cache, key>> the four caches of cache.py hold
    reply,          \* the last request served by app.py: what was asked and what was returned
    served          \* the number of requests served

vars == <<query, classification, text, max_sentences, limited,
          docs, doc_idx, price_info, rules, ctx_docs, ctx_type, context,
          name_a, name_b, normalized, matched, norm_cache, norm_log,
          match_cache, match_log,
          draft, price_map, sentence_cap, arg_treatment, arg_price, response,
          in_maintenance_mode, caches, reply, served>>

classifyVars == <<query, classification>>
sentenceVars == <<text, max_sentences, limited>>
priceVars    == <<docs, doc_idx, price_info, rules>>
contextVars  == <<ctx_docs, ctx_type, context>>
matchVars    == <<name_a, name_b, normalized, matched, norm_cache, norm_log,
                 match_cache, match_log>>
composeVars  == <<draft, price_map, sentence_cap, arg_treatment, arg_price, response>>
appVars      == <<in_maintenance_mode, caches, reply, served>>

\* an Optional[str]: Python's None, or a str
None == [some |-> FALSE, val |-> <<>>]
Some(s) == [some |-> TRUE, val |-> s]

(***************************************************************************)
(* Characters and str methods                                              *)
(***************************************************************************)
Upper == <<"A","B","C","D","E","F","G","H","I","J","K","L","M","N","O","P","Q","R","S","T","U","V","W","X","Y","Z">>
Lowers == <<"a","b","c","d","e","f","g","h","i","j","k","l","m","n","o","p","q","r","s","t","u","v","w","x","y","z">>
Digits == {"0","1","2","3","4","5","6","7","8","9"}
Letters == {Upper[k] : k \in 1..26} \cup {Lowers[k] : k \in 1..26}
Space == {" ", "\n", "\t", "\r"}

LowerOf == [c \in {Upper[k] : k \in 1..26} |-> Lowers[CHOOSE k \in 1..26 : Upper[k] = c]]

LowerChar(c) == IF c \in DOMAIN LowerOf THEN LowerOf[c] ELSE c

UpperChar(c) ==
    IF \E k \in 1..26 : Lowers[k] = c THEN Upper[CHOOSE k \in 1..26 : Lowers[k] = c] ELSE c

\* str.title(): a letter is upper-cased after a character that is not a
\* letter (or at the start) and lower-cased after a letter
Title(s) ==
    [k \in 1..Len(s) |->
        IF k > 1 /\ s[k - 1] \in Letters THEN LowerChar(s[k]) ELSE UpperChar(s[k])]

\* str.lower()
ToLower(s) == [k \in 1..Len(s) |-> LowerChar(s[k])]

\* s[a:b] with 0 <= a, in Python's half-open, zero-based convention
Slice(s, a, b) == SubSeq(s, a + 1, IF b < Len(s) THEN b ELSE Len(s))

\* str.strip()
Strip(s) ==
    LET n == Len(s)
    IN  IF \A k \in 1..n : s[k] \in Space THEN <<>>
        ELSE SubSeq(s,
                CHOOSE k \in 1..n : s[k] \notin Space /\ \A j \in 1..(k - 1) : s[j] \in Space,
                CHOOSE k \in 1..n : s[k] \notin Space /\ \A j \in (k + 1)..n : s[j] \in Space)

\* sub in s
Contains(s, sub) ==
    \E k \in 0..(Len(s) - Len(sub)) : SubSeq(s, k + 1, k + Len(sub)) = sub

\* s.startswith(p), s.endswith(p)
StartsWith(s, p) == Len(p) <= Len(s) /\ SubSeq(s, 1, Len(p)) = p
EndsWith(s, p) == Len(p) <= Len(s) /\ SubSeq(s, Len(s) - Len(p) + 1, Len(s)) = p

\* str.isdigit()
IsDigit(s) == s # <<>> /\ \A k \in 1..Len(s) : s[k] \in Digits

RECURSIVE Join(_, _)
\* sep.join(parts)
Join(sep, parts) ==
    IF parts = <<>> THEN <<>>
    ELSE IF Len(parts) = 1 THEN parts[1]
    ELSE parts[1] \o sep \o Join(sep, Tail(parts))

(***************************************************************************)
(* Regular expressions (the subset of Python's re the sources use)         *)
(***************************************************************************)
Set(cs)    == [t |-> "set", cs |-> cs, neg |-> FALSE]
NotSet(cs) == [t |-> "set", cs |-> cs, neg |-> TRUE]
Dot        == NotSet({"\n"})                       \* .
Cat(rs)    == [t |-> "cat", rs |-> rs]
Alt(rs)    == [t |-> "alt", rs |-> rs]             \* r1|r2|...
Lit(str)   == [t |-> "lit", s |-> str]             \* literal text
Star(r)    == [t |-> "rep", r |-> r, min |-> 0, many |-> TRUE,  greedy |-> TRUE]   \* r*
Plus(r)    == [t |-> "rep", r |-> r, min |-> 1, many |-> TRUE,  greedy |-> TRUE]   \* r+
Opt(r)     == [t |-> "rep", r |-> r, min |-> 0, many |-> FALSE, greedy |-> TRUE]   \* r?
LazyStar(r) == [t |-> "rep", r |-> r, min |-> 0, many |-> TRUE, greedy |-> FALSE]  \* r*?
LazyPlus(r) == [t |-> "rep", r |-> r, min |-> 1, many |-> TRUE, greedy |-> FALSE]  \* r+?
Group(k, r) == [t |-> "grp", r |-> r, k |-> k]     \* the k-th ( ... )
Bol        == [t |-> "bol"]                        \* ^
Eol        == [t |-> "eol"]                        \* $
Behind(r)  == [t |-> "behind", r |-> r]           \* (?<=r), r one character wide
Ahead(r)   == [t |-> "ahead", r |-> r]             \* (?=r)

NoCaps == << <<0, 0>>, <<0, 0>> >>
NoMatch == [ok |-> FALSE, start |-> 0, pos |-> 0, caps |-> NoCaps]

InClass(h, c, ic) ==
    IF ic THEN (LowerChar(c) \in {LowerChar(x) : x \in h.cs}) # h.neg
    ELSE (c \in h.cs) # h.neg

RECURSIVE Match(_, _, _, _, _)
\* Runs the nodes of stack one after the other on s from index i (1-based),
\* backtracking in Python's order; ic is re.IGNORECASE.  The first way that
\* succeeds is the match.
Match(stack, s, ic, i, caps) ==
    IF stack = <<>> THEN [ok |-> TRUE, start |-> 0, pos |-> i, caps |-> caps]
    ELSE
    LET h == Head(stack)
        rest == Tail(stack)
    IN  CASE h.t = "set" ->
                IF i <= Len(s) /\ InClass(h, s[i], ic)
                THEN Match(rest, s, ic, i + 1, caps) ELSE NoMatch
          [] h.t = "lit" ->
                IF /\ i + Len(h.s) - 1 <= Len(s)
                   /\ \A k \in 1..Len(h.s) :
                         IF ic THEN LowerChar(s[i + k - 1]) = LowerChar(h.s[k])
                         ELSE s[i + k - 1] = h.s[k]
                THEN Match(rest, s, ic, i + Len(h.s), caps) ELSE NoMatch
          [] h.t = "cat" -> Match(h.rs \o rest, s, ic, i, caps)
          [] h.t = "alt" ->
                LET first == Match(<<Head(h.rs)>> \o rest, s, ic, i, caps)
                IN  IF first.ok \/ Len(h.rs) = 1 THEN first
                    ELSE Match(<<Alt(Tail(h.rs))>> \o rest, s, ic, i, caps)
          [] h.t = "rep" /\ h.many /\ h.r.t = "set" ->
                \* a repeated character class: of the run of characters it can
                \* take, the longest part (greedy) or the shortest (lazy) after
                \* which the rest matches
                LET run == CHOOSE n \in 0..(Len(s) - i + 1) :
                                /\ \A k \in i..(i + n - 1) : InClass(h.r, s[k], ic)
                                /\ i + n <= Len(s) => ~InClass(h.r, s[i + n], ic)
                    First(good) ==
                        IF good = {} THEN NoMatch
                        ELSE Match(rest, s, ic,
                                   i + (CHOOSE n \in good : \A m \in good :
                                            IF h.greedy THEN n >= m ELSE n <= m),
                                   caps)
                IN  First({n \in h.min..run : Match(rest, s, ic, i + n, caps).ok})
          [] h.t = "rep" /\ ~(h.many /\ h.r.t = "set") ->
                LET again == IF h.many THEN <<h.r, [h EXCEPT !.min = 0]>> ELSE <<h.r>>
                    more == Match(again \o rest, s, ic, i, caps)
                    stop == IF h.min = 0 THEN Match(rest, s, ic, i, caps) ELSE NoMatch
                IN  IF h.greedy
                    THEN IF more.ok THEN more ELSE stop
                    ELSE IF stop.ok THEN stop ELSE more
          [] h.t = "grp" ->
                Match(<<[t |-> "open", k |-> h.k], h.r, [t |-> "close", k |-> h.k]>> \o rest,
                      s, ic, i, caps)
          [] h.t = "open" -> Match(rest, s, ic, i, [caps EXCEPT ![h.k] = <<i, 0>>])
          [] h.t = "close" -> Match(rest, s, ic, i, [caps EXCEPT ![h.k] = <<caps[h.k][1], i>>])
          [] h.t = "bol" -> IF i = 1 THEN Match(rest, s, ic, i, caps) ELSE NoMatch
          [] h.t = "eol" ->
                IF i = Len(s) + 1 \/ (i = Len(s) /\ s[i] = "\n")
                THEN Match(rest, s, ic, i, caps) ELSE NoMatch
          [] h.t = "behind" ->
                IF i > 1 /\ Match(<<h.r>>, s, ic, i - 1, caps).ok
                THEN Match(rest, s, ic, i, caps) ELSE NoMatch
          [] h.t = "ahead" ->
                IF Match(<<h.r>>, s, ic, i, caps).ok
                THEN Match(rest, s, ic, i, caps) ELSE NoMatch

\* pattern.match(s): anchored at the start of s
ReMatch(re, s) == Match(<<re.r>>, s, re.ic, 1, NoCaps)

\* pattern.search(s) from index i: the leftmost start where the pattern matches
SearchFrom(re, s, i) ==
    LET From(leftmost) == [Match(<<re.r>>, s, re.ic, leftmost, NoCaps) EXCEPT !.start = leftmost]
        Leftmost(starts) ==
            IF starts = {} THEN NoMatch
            ELSE From(CHOOSE j \in starts : \A k \in starts : j <= k)
    IN  Leftmost({j \in i..(Len(s) + 1) : Match(<<re.r>>, s, re.ic, j, NoCaps).ok})

\* bool(pattern.search(s))
ReFound(re, s) == \E i \in 1..(Len(s) + 1) : Match(<<re.r>>, s, re.ic, i, NoCaps).ok

\* match.group(k)
GroupText(m, s, k) == SubSeq(s, m.caps[k][1], m.caps[k][2] - 1)

RECURSIVE FindAllFrom(_, _, _)
\* the successive non-overlapping matches that findall, sub and split walk over
FindAllFrom(re, s, i) ==
    LET Matches(m) ==
            IF ~m.ok THEN <<>>
            ELSE <<m>> \o FindAllFrom(re, s, IF m.pos > m.start THEN m.pos ELSE m.pos + 1)
    IN  Matches(SearchFrom(re, s, i))

\* pattern.sub(repl, s) for a template repl that is group repl.group of the
\* match (none when 0) followed by the text repl.text: every match is replaced
\* by the expanded template, the text between the matches is kept
ReSub(re, s, repl) ==
    LET RECURSIVE Rebuilt(_, _)
        \* the text from the end of match k - 1 of ms on, its matches replaced
        Rebuilt(ms, k) ==
            LET from == IF k = 1 THEN 1 ELSE ms[k - 1].pos
            IN  IF k > Len(ms) THEN SubSeq(s, from, Len(s))
                ELSE SubSeq(s, from, ms[k].start - 1)
                        \o (IF repl.group = 0 THEN <<>> ELSE GroupText(ms[k], s, repl.group))
                        \o repl.text
                        \o Rebuilt(ms, k + 1)
    IN  Rebuilt(FindAllFrom(re, s, 1), 1)

\* s.replace(old, new) for a non-empty old
Replace(s, old, new) ==
    ReSub([ic |-> FALSE, r |-> Lit(old)], s, [group |-> 0, text |-> new])

\* pattern.split(s) for a pattern without groups that never matches the empty string
ReSplit(re, s) ==
    LET Pieces(ms) ==
            [k \in 1..(Len(ms) + 1) |->
                SubSeq(s, IF k = 1 THEN 1 ELSE ms[k - 1].pos,
                          IF k = Len(ms) + 1 THEN Len(s) ELSE ms[k].start - 1)]
    IN  Pieces(FindAllFrom(re, s, 1))

(***************************************************************************)
(* src/pattern_matching.py                                                 *)
(***************************************************************************)
WS    == Set(Space)                \* \s
Digit == Set(Digits)               \* \d

\* (?:cost|price)[^\d]*?(\d+), re.IGNORECASE
PRICE_PATTERN ==
    [ic |-> TRUE,
     r |-> Cat(<<Alt(<<Lit(<<"c","o","s","t">>), Lit(<<"p","r","i","c","e">>)>>), LazyStar(NotSet(Digits)),
                 Group(1, Plus(Digit))>>)]

\* ([a-zA-Z\s]+)\s*(?:cost|price)[^\d]*?(\d+), re.IGNORECASE
TREATMENT_PRICE_PATTERN ==
    [ic |-> TRUE,
     r |-> Cat(<<Group(1, Plus(Set(Letters \cup Space))), Star(WS),
                 Alt(<<Lit(<<"c","o","s","t">>), Lit(<<"p","r","i","c","e">>)>>), LazyStar(NotSet(Digits)),
                 Group(2, Plus(Digit))>>)]

BDT_QUERY_PATTERN_case_sensitive ==
    [ic |-> FALSE,
     r |-> Cat(<<Bol, Star(WS), Group(1, LazyPlus(Dot)), Star(WS),
                 Alt(<<Lit(<<"B","D","T">>), Cat(<<Lit(<<"T","k">>), Opt(Set({"."}))>>), Lit(<<"T","a","k","a">>)>>),
                 Star(WS), Eol>>)]

\* ^\s*(.+?)\s*(?:BDT|Tk\.?|Taka)\s*$, re.I
BDT_QUERY_PATTERN ==
    [ic |-> TRUE,
     r |-> Cat(<<Bol, Star(WS), Group(1, LazyPlus(Dot)), Star(WS),
                 Alt(<<Lit(<<"B","D","T">>), Cat(<<Lit(<<"T","k">>), Opt(Set({"."}))>>), Lit(<<"T","a","k","a">>)>>),
                 Star(WS), Eol>>)]

\* (\d+)(?:\.00)?\s*(?:BDT|Tk\.?)
PRICE_FORMAT_PATTERN ==
    [ic |-> FALSE,
     r |-> Cat(<<Group(1, Plus(Digit)), Opt(Lit(<<".","0","0">>)), Star(WS),
                 Alt(<<Lit(<<"B","D","T">>), Cat(<<Lit(<<"T","k">>), Opt(Set({"."}))>>)>>)>>)]

\* (?<=\S)(?=\d+\.00 BDT)
SPACE_BEFORE_PRICE_PATTERN ==
    [ic |-> FALSE,
     r |-> Cat(<<Behind(NotSet(Space)), Ahead(Cat(<<Plus(Digit), Lit(<<".","0","0"," ","B","D","T">>)>>))>>)]

\* (?:cost|price|charge)[^\d]*(\d+), re.IGNORECASE
GENERAL_PRICE_PATTERN ==
    [ic |-> TRUE,
     r |-> Cat(<<Alt(<<Lit(<<"c","o","s","t">>), Lit(<<"p","r","i","c","e">>), Lit(<<"c","h","a","r","g","e">>)>>), Star(NotSet(Digits)),
                 Group(1, Plus(Digit))>>)]

PRICE_KEYWORDS ==
    <<<<"p","r","i","c","e">>, <<"c","o","s","t">>, <<"f","e","e">>, <<"c","h","a","r","g","e">>, <<"p","a","y","m","e","n","t">>, <<"p","a","y">>, <<"e","x","p","e","n","s","e">>, <<"b","i","l","l">>,
      <<"p","r","i","c","i","n","g">>, <<"c","o","s","t","s">>, <<"f","e","e","s">>, <<"e","x","p","e","n","s","i","v","e">>, <<"c","h","e","a","p">>, <<"a","f","f","o","r","d","a","b","l","e">>,
      <<"h","o","w"," ","m","u","c","h">>, <<"h","o","w"," ","m","a","n","y">>, <<"b","d","t">>, <<"t","a","k","a">>, <<"t","k">>>>

\* re.sub(r'[^\w\s]', '', treatment.lower()), then re.sub(r'\s+', ' ', ...).strip()
normalize_treatment_name(treatment) ==
    LET lowered == ToLower(treatment)
        kept == SelectSeq(lowered, LAMBDA c : c \in Letters \cup Digits \cup {"_"} \cup Space)
        \* every run of whitespace becomes one space
        collapsed == SelectSeq(
            [k \in 1..Len(kept) |->
                IF kept[k] \notin Space THEN kept[k]
                ELSE IF k > 1 /\ kept[k - 1] \in Space THEN "" ELSE " "],
            LAMBDA c : c # "")
    IN  Strip(collapsed)

is_price_query(q) ==
    LET query_lower == ToLower(q)
    IN  \E k \in 1..Len(PRICE_KEYWORDS) : Contains(query_lower, PRICE_KEYWORDS[k])

\* the how_much_patterns of is_direct_price_query
direct_how_much_patterns ==
    <<  \* how\s+much\s+(?:does|is|for|will|would|should)?
        Cat(<<Lit(<<"h","o","w">>), Plus(WS), Lit(<<"m","u","c","h">>), Plus(WS),
              Opt(Alt(<<Lit(<<"d","o","e","s">>), Lit(<<"i","s">>), Lit(<<"f","o","r">>), Lit(<<"w","i","l","l">>),
                        Lit(<<"w","o","u","l","d">>), Lit(<<"s","h","o","u","l","d">>)>>))>>),
        \* what\s+(?:is|are)\s+the\s+(?:price|cost|fee|charge)
        Cat(<<Lit(<<"w","h","a","t">>), Plus(WS), Alt(<<Lit(<<"i","s">>), Lit(<<"a","r","e">>)>>), Plus(WS),
              Lit(<<"t","h","e">>), Plus(WS),
              Alt(<<Lit(<<"p","r","i","c","e">>), Lit(<<"c","o","s","t">>), Lit(<<"f","e","e">>), Lit(<<"c","h","a","r","g","e">>)>>)>>),
        \* (?:price|cost|fee|charge)\s+(?:of|for)
        Cat(<<Alt(<<Lit(<<"p","r","i","c","e">>), Lit(<<"c","o","s","t">>), Lit(<<"f","e","e">>), Lit(<<"c","h","a","r","g","e">>)>>), Plus(WS),
              Alt(<<Lit(<<"o","f">>), Lit(<<"f","o","r">>)>>)>>),
        \* how\s+(?:expensive|costly)
        Cat(<<Lit(<<"h","o","w">>), Plus(WS), Alt(<<Lit(<<"e","x","p","e","n","s","i","v","e">>), Lit(<<"c","o","s","t","l","y">>)>>)>>) >>

is_direct_price_query(q) ==
    IF q = <<>> THEN FALSE
    ELSE IF ReMatch(BDT_QUERY_PATTERN, q).ok THEN TRUE
    ELSE LET text_lower == ToLower(q)
         IN  \E k \in 1..Len(direct_how_much_patterns) :
                SearchFrom([ic |-> FALSE, r |-> direct_how_much_patterns[k]], text_lower, 1).ok

\* (?:a|an|the)?\s*(.+?)
ArticleAndName ==
    Cat(<<Opt(Alt(<<Lit(<<"a">>), Lit(<<"a","n">>), Lit(<<"t","h","e">>)>>)), Star(WS), Group(1, LazyPlus(Dot))>>)

\* (?:\?|$|in\s+(?:bdt|taka|tk))
QueryEnd ==
    Alt(<<Set({"?"}), Eol,
          Cat(<<Lit(<<"i","n">>), Plus(WS), Alt(<<Lit(<<"b","d","t">>), Lit(<<"t","a","k","a">>), Lit(<<"t","k">>)>>)>>)>>)

\* the how_much_patterns of extract_treatment_from_query
extract_how_much_patterns ==
    <<  \* how\s+much\s+(?:does|is|for|will|would|should)?\s+(?:a|an|the)?\s*(.+?)
        \*     (?:\s+cost|\s+price|\s+charge|\s+fee)?(?:\?|$|in\s+(?:bdt|taka|tk))
        Cat(<<Lit(<<"h","o","w">>), Plus(WS), Lit(<<"m","u","c","h">>), Plus(WS),
              Opt(Alt(<<Lit(<<"d","o","e","s">>), Lit(<<"i","s">>), Lit(<<"f","o","r">>), Lit(<<"w","i","l","l">>),
                        Lit(<<"w","o","u","l","d">>), Lit(<<"s","h","o","u","l","d">>)>>)),
              Plus(WS), ArticleAndName,
              Opt(Alt(<<Cat(<<Plus(WS), Lit(<<"c","o","s","t">>)>>), Cat(<<Plus(WS), Lit(<<"p","r","i","c","e">>)>>),
                        Cat(<<Plus(WS), Lit(<<"c","h","a","r","g","e">>)>>), Cat(<<Plus(WS), Lit(<<"f","e","e">>)>>)>>)),
              QueryEnd>>),
        \* what\s+(?:is|are)\s+the\s+(?:price|cost|fee|charge)(?:\s+of|\s+for)?\s+
        \*     (?:a|an|the)?\s*(.+?)(?:\?|$|in\s+(?:bdt|taka|tk))
        Cat(<<Lit(<<"w","h","a","t">>), Plus(WS), Alt(<<Lit(<<"i","s">>), Lit(<<"a","r","e">>)>>), Plus(WS),
              Lit(<<"t","h","e">>), Plus(WS),
              Alt(<<Lit(<<"p","r","i","c","e">>), Lit(<<"c","o","s","t">>), Lit(<<"f","e","e">>), Lit(<<"c","h","a","r","g","e">>)>>),
              Opt(Alt(<<Cat(<<Plus(WS), Lit(<<"o","f">>)>>), Cat(<<Plus(WS), Lit(<<"f","o","r">>)>>)>>)),
              Plus(WS), ArticleAndName, QueryEnd>>),
        \* (?:price|cost|fee|charge)\s+(?:of|for)\s+(?:a|an|the)?\s*(.+?)
        \*     (?:\?|$|in\s+(?:bdt|taka|tk))
        Cat(<<Alt(<<Lit(<<"p","r","i","c","e">>), Lit(<<"c","o","s","t">>), Lit(<<"f","e","e">>), Lit(<<"c","h","a","r","g","e">>)>>), Plus(WS),
              Alt(<<Lit(<<"o","f">>), Lit(<<"f","o","r">>)>>), Plus(WS), ArticleAndName, QueryEnd>>) >>

RECURSIVE FirstHowMuch(_, _)
\* the loop over how_much_patterns: the first pattern that matches decides
FirstHowMuch(query_lower, k) ==
    IF k > Len(extract_how_much_patterns) THEN None
    ELSE LET m == SearchFrom([ic |-> FALSE, r |-> extract_how_much_patterns[k]], query_lower, 1)
         IN  IF m.ok THEN Some(Strip(GroupText(m, query_lower, 1)))
             ELSE FirstHowMuch(query_lower, k + 1)

\* None, or the treatment name
extract_treatment_from_query(q) ==
    LET bdt_match == ReMatch(BDT_QUERY_PATTERN, q)
    IN  IF bdt_match.ok THEN Some(Strip(GroupText(bdt_match, q, 1)))
        ELSE FirstHowMuch(ToLower(q), 1)

(***************************************************************************)
(* Classifying a query                                                     *)
(***************************************************************************)
MaxQueryTokens == 3

QueryTokens ==
    {<<"h","o","w"," ","m","u","c","h">>, <<"h","o","w"," ","e","x","p","e","n","s","i","v","e">>, <<"p","r","i","c","e"," ","o","f">>, <<"i","s">>, <<"a","n">>, <<"X","-","R","a","y">>, <<"B","D","T">>}

RECURSIVE TokenTexts(_)
\* the texts of at most n tokens separated by single spaces
TokenTexts(n) ==
    IF n = 0 THEN {<<>>}
    ELSE LET shorter == TokenTexts(n - 1)
         IN  shorter \cup QueryTokens
                \cup {t \o <<" ">> \o w : t \in shorter \ {<<>>}, w \in QueryTokens}

\* queries of the form "<name> <currency word>", with and without padding
CurrencyQueries ==
    {lead \o name \o sep \o word \o trail :
        lead \in {<<>>, <<" ">>},
        name \in {<<"X","-","R","a","y">>, <<"r","o","o","t"," ","c","a","n","a","l">>, <<"T","k">>, <<"x"," ","b","d","t">>, <<"a">>, <<"r","o","o","t","\n","c","a","n","a","l">>, <<"x","\t","y">>},
        sep \in {<<" ">>, <<>>, <<" ","\n">>},
        word \in {<<"B","D","T">>, <<"b","d","t">>, <<"T","k">>, <<"t","K">>, <<"T","k",".">>, <<"T","K",".">>, <<"T","a","k","a">>, <<"t","A","K","A">>},
        trail \in {<<>>, <<" ","\n">>}}

\* the interrogative forms, with and without an article before the name
TreatmentNames == {<<"r","o","o","t"," ","c","a","n","a","l">>, <<"X","-","R","a","y">>, <<"a","s","p","i","r","i","n">>, <<"t","h","e","r","a","p","y">>}
Articles == {<<>>, <<"a"," ">>, <<"a","n"," ">>, <<"t","h","e"," ">>}
InterrogativeForms ==
    {<<<<"h","o","w"," ","m","u","c","h"," ","d","o","e","s"," ">>, <<" ","c","o","s","t","?">>>>, <<<<"w","h","a","t"," ","i","s"," ","t","h","e"," ","p","r","i","c","e"," ","o","f"," ">>, <<"?">>>>, <<<<"p","r","i","c","e"," ","o","f"," ">>, <<>>>>}
InterrogativeQueries ==
    {form[1] \o article \o name \o form[2] :
        form \in InterrogativeForms, article \in Articles, name \in TreatmentNames}

Queries ==
    LET plain == TokenTexts(MaxQueryTokens)
    IN  plain \cup {t \o <<"?">> : t \in plain}
            \cup CurrencyQueries \cup InterrogativeQueries
            \cup {<<"h","o","w"," ","m","u","c","h"," ","d","o","e","s"," ","a"," ","r","o","o","t"," ","c","a","n","a","l"," ","c","o","s","t","?">>, <<"w","h","a","t"," ","i","s"," ","t","h","e"," ","p","r","i","c","e"," ","o","f"," ","a","n"," ","x","-","r","a","y","?">>,
                  <<"w","h","a","t"," ","i","s"," ","t","h","e"," ","p","r","i","c","e">>, <<"h","o","w"," ","m","u","c","h"," ","i","s"," ","t","h","e"," ","X","-","R","a","y"," ","f","e","e"," ","i","n"," ","t","a","k","a">>, <<"h","o","w"," ","c","o","s","t","l","y">>,
                  <<"h","o","w"," "," ","m","u","c","h"," ","i","s"," ","i","t">>, <<" "," ","B","D","T">>, <<"s","c","a","l","i","n","g"," ","T","a","k","a"," ">>, <<"R","o","o","t"," ","C","a","n","a","l"," ","T","k",".">>,
                  <<"X","-","R","a","y"," ","t","k">>, <<"h","o","w"," ","m","u","c","h"," ","i","s"," ","x","\n">>, <<"r","o","o","t"," ","c","a","n","a","l">>}

\* QueryClassifier: the three functions applied to one query
Classify ==
    /\ ~classification.done
    /\ classification' =
          [done |-> TRUE,
           is_price_query |-> is_price_query(query),
           is_direct_price_query |-> is_direct_price_query(query),
           treatment_name |-> extract_treatment_from_query(query)]
    /\ UNCHANGED <<query, sentenceVars, priceVars, contextVars, matchVars, composeVars,
                   appVars>>

(***************************************************************************)
(* src/text_processing.py: sentence limiting                               *)
(***************************************************************************)
Terminators == {".", "!", "?"}

\* (?<=[.!?])\s+
SENTENCE_PATTERN == [ic |-> FALSE, r |-> Cat(<<Behind(Set(Terminators)), Plus(WS)>>)]

count_sentences(t) == Len(FindAllFrom(SENTENCE_PATTERN, t, 1))

\* within_limit with the comparison off by one
within_limit_off_by_one(sentences, limit) == Len(sentences) - 1 <= limit

\* len(sentences) <= max_sentences
within_limit(sentences, limit) == Len(sentences) <= limit

\* proper_ending without the appended '.'
proper_ending_missing(limited_text) == limited_text

\* if not limited_text.endswith(('.', '!', '?')): limited_text += '.'
proper_ending(limited_text) ==
    IF \E c \in Terminators : EndsWith(limited_text, <<c>>)
    THEN limited_text ELSE limited_text \o <<".">>

\* ensure_sentence_limit returning the stripped text when within the limit
ensure_sentence_limit_trimmed(t, limit) ==
    LET sentences == ReSplit(SENTENCE_PATTERN, Strip(t))
    IN  IF within_limit(sentences, limit) THEN Strip(t)
        ELSE proper_ending(Join(<<"."," ">>, SubSeq(sentences, 1, limit)))

ensure_sentence_limit(t, limit) ==
    LET sentences == ReSplit(SENTENCE_PATTERN, Strip(t))
    IN  IF within_limit(sentences, limit) THEN t
        ELSE proper_ending(Join(<<"."," ">>, SubSeq(sentences, 1, limit)))

MaxTextLen == 6
MaxLimit == 2

RECURSIVE TextsOfLen(_)
TextsOfLen(n) ==
    IF n = 0 THEN {<<>>}
    ELSE {t \o <<c>> : t \in TextsOfLen(n - 1), c \in {"A", ".", "?", " "}}

Texts ==
    UNION {TextsOfLen(n) : n \in 0..MaxTextLen}
        \cup {<<"A","."," ","B","."," ","C","."," ","D",".">>, <<"A","."," ","B","."," ","C",".">>, <<"Y","e","s","!"," ","N","o","?"," ","M","a","y","b","e",".">>, <<"A","."," "," ","B","!","\n","C">>, <<"O","n","e"," ","t","w","o","."," ","T","h","r","e","e">>}

\* ensure_sentence_limit(text, max_sentences)
LimitSentences ==
    /\ limited.calls = 0
    /\ limited' = [limited EXCEPT !.calls = 1,
                                  !.first = ensure_sentence_limit(text, max_sentences)]
    /\ UNCHANGED <<text, max_sentences, classifyVars, priceVars, contextVars, matchVars, composeVars,
                   appVars>>

\* the result goes through ensure_sentence_limit once more, with the same limit
LimitAgain ==
    /\ limited.calls = 1
    /\ limited' = [limited EXCEPT !.calls = 2,
                                  !.second = ensure_sentence_limit(limited.first, max_sentences)]
    /\ UNCHANGED <<text, max_sentences, classifyVars, priceVars, contextVars, matchVars, composeVars,
                   appVars>>

(***************************************************************************)
(* Python dicts: insertion-ordered sequences of <<key, value>>             *)
(***************************************************************************)
DictKeys(d) == {d[k][1] : k \in 1..Len(d)}

DictGet(d, key) == d[CHOOSE k \in 1..Len(d) : d[k][1] = key][2]

\* d[key] = value
DictSet(d, key, value) ==
    IF key \in DictKeys(d)
    THEN [k \in 1..Len(d) |-> IF d[k][1] = key THEN <<key, value>> ELSE d[k]]
    ELSE Append(d, <<key, value>>)

RECURSIVE DictUpdate(_, _)
\* d.update(other)
DictUpdate(d, other) ==
    IF other = <<>> THEN d
    ELSE DictUpdate(DictSet(d, Head(other)[1], Head(other)[2]), Tail(other))

\* str.split(sep) for a one-character separator
SplitOn(s, sep) ==
    LET cuts == {k \in 1..Len(s) : s[k] = sep}
        ends == cuts \cup {Len(s) + 1}
    IN  [n \in 1..Cardinality(ends) |->
            LET e == CHOOSE x \in ends : Cardinality({y \in ends : y < x}) = n - 1
                b == IF n = 1 THEN 0
                     ELSE CHOOSE x \in cuts : Cardinality({y \in ends : y < x}) = n - 2
            IN  SubSeq(s, b + 1, e - 1)]

\* str.split(): the maximal runs of non-whitespace
Words(s) ==
    LET starts == {k \in 1..Len(s) : s[k] \notin Space /\ (k = 1 \/ s[k - 1] \in Space)}
    IN  [n \in 1..Cardinality(starts) |->
            LET b == CHOOSE x \in starts : Cardinality({y \in starts : y < x}) = n - 1
                e == CHOOSE x \in b..Len(s) :
                        /\ \A y \in b..x : s[y] \notin Space
                        /\ (x = Len(s) \/ s[x + 1] \in Space)
            IN  SubSeq(s, b, e)]

(***************************************************************************)
(* src/document_utils.py: extract_price_info                               *)
(*                                                                         *)
(* A document is [page_content, metadata]; metadata is a record whose      *)
(* fields are the keys of the Python dict (no field: the empty dict).      *)
(***************************************************************************)
NoMetadata == [k \in {} |-> TRUE]

\* hasattr(doc, 'metadata') and doc.metadata, 'has_price_info' in it and true,
\* and 'price_data' in it
HasPriceMetadata(doc) ==
    /\ DOMAIN doc.metadata # {}
    /\ "has_price_info" \in DOMAIN doc.metadata
    /\ doc.metadata.has_price_info
    /\ "price_data" \in DOMAIN doc.metadata

RECURSIVE RecordMatches_case_kept(_, _, _)
\* RecordMatches without .lower() on the treatment
RecordMatches_case_kept(d, content, matches) ==
    IF matches = <<>> THEN d
    ELSE LET treatment == Strip(GroupText(Head(matches), content, 1))
             price == Strip(GroupText(Head(matches), content, 2))
         IN  RecordMatches_case_kept(
                IF treatment # <<>> /\ ~IsDigit(treatment) /\ Len(treatment) > 2
                THEN DictSet(d, treatment, price) ELSE d,
                content, Tail(matches))

RECURSIVE RecordMatches(_, _, _)
\* for match in matches: price_info[treatment] = price, under the three conditions
RecordMatches(d, content, matches) ==
    IF matches = <<>> THEN d
    ELSE LET treatment == ToLower(Strip(GroupText(Head(matches), content, 1)))
             price == Strip(GroupText(Head(matches), content, 2))
         IN  RecordMatches(
                IF treatment # <<>> /\ ~IsDigit(treatment) /\ Len(treatment) > 2
                THEN DictSet(d, treatment, price) ELSE d,
                content, Tail(matches))

RECURSIVE ScanLines(_, _, _)
\* for line in lines: the line-level association of a treatment with a price
ScanLines(d, lines, price_matches) ==
    IF lines = <<>> THEN d
    ELSE LET line == ToLower(Strip(Head(lines)))
             all == Words(line)
             words == SelectSeq(all, LAMBDA w :
                        /\ Len(w) > 3
                        /\ ~IsDigit(w)
                        /\ w \notin {<<"p","r","i","c","e">>, <<"c","o","s","t">>, <<"b","d","t">>, <<"t","a","k","a">>, <<"c","h","a","r","g","e">>,
                                     <<"t","r","e","a","t","m","e","n","t">>, <<"s","e","r","v","i","c","e">>, <<"p","r","o","c","e","d","u","r","e">>})
             price_match == SearchFrom(PRICE_PATTERN, line, 1)
             hit == /\ \E k \in 1..Len(price_matches) : Contains(line, price_matches[k])
                    /\ words # <<>>
                    /\ price_match.ok
         IN  ScanLines(
                IF hit THEN DictSet(d, Join(<<" ">>, words), GroupText(price_match, line, 1)) ELSE d,
                Tail(lines), price_matches)

\* the line-level rule: runs when PRICE_PATTERN.findall(content) is not empty
LineRule(d, content) ==
    LET ms == FindAllFrom(PRICE_PATTERN, content, 1)
        price_matches == [k \in 1..Len(ms) |-> GroupText(ms[k], content, 1)]
    IN  IF price_matches # <<>> THEN ScanLines(d, SplitOn(content, "\n"), price_matches) ELSE d

\* FallbackRule without the "if word not in price_info" test
FallbackRule_overwriting(d, content) ==
    LET match == SearchFrom(GENERAL_PRICE_PATTERN, content, 1)
        price == Strip(GroupText(match, content, 1))
        words == Words(ToLower(content))
        picks == {k \in 1..Len(words) :
                    /\ Len(words[k]) > 3
                    /\ words[k] \notin {<<"p","r","i","c","e">>, <<"c","o","s","t">>, <<"b","d","t">>, <<"t","a","k","a">>, <<"c","h","a","r","g","e">>}}
        word == words[CHOOSE k \in picks : \A j \in picks : k <= j]
    IN  IF match.ok /\ picks # {}
        THEN DictSet(d, word, price) ELSE d

\* the whole-document rule: runs when GENERAL_PRICE_PATTERN.search(content) matches
FallbackRule(d, content) ==
    LET match == SearchFrom(GENERAL_PRICE_PATTERN, content, 1)
        price == Strip(GroupText(match, content, 1))
        words == Words(ToLower(content))
        picks == {k \in 1..Len(words) :
                    /\ Len(words[k]) > 3
                    /\ words[k] \notin {<<"p","r","i","c","e">>, <<"c","o","s","t">>, <<"b","d","t">>, <<"t","a","k","a">>, <<"c","h","a","r","g","e">>}}
        word == words[CHOOSE k \in picks : \A j \in picks : k <= j]
    IN  IF match.ok /\ picks # {} /\ word \notin DictKeys(d)
        THEN DictSet(d, word, price) ELSE d

\* ExtractFromDoc without the continue after the metadata merge
ExtractFromDoc_scanning_on(d, doc) ==
    LET content == doc.page_content
        matches == FindAllFrom(TREATMENT_PRICE_PATTERN, content, 1)
        merged == IF HasPriceMetadata(doc) THEN DictUpdate(d, doc.metadata.price_data) ELSE d
    IN  IF matches # <<>> THEN RecordMatches(merged, content, matches)
        ELSE FallbackRule(LineRule(merged, content), content)

\* one iteration of "for doc in docs" on the dict built so far
ExtractFromDoc(d, doc) ==
    LET content == doc.page_content
        matches == FindAllFrom(TREATMENT_PRICE_PATTERN, content, 1)
    IN  IF HasPriceMetadata(doc) THEN DictUpdate(d, doc.metadata.price_data)
        ELSE IF matches # <<>> THEN RecordMatches(d, content, matches)
        ELSE FallbackRule(LineRule(d, content), content)

\* the rules of the cascade whose condition holds for doc
RulesFor(doc) ==
    LET content == doc.page_content
    IN  IF HasPriceMetadata(doc) THEN {"metadata"}
        ELSE IF FindAllFrom(TREATMENT_PRICE_PATTERN, content, 1) # <<>> THEN {"pattern"}
        ELSE (IF FindAllFrom(PRICE_PATTERN, content, 1) # <<>> THEN {"line"} ELSE {})
                \cup (IF SearchFrom(GENERAL_PRICE_PATTERN, content, 1).ok THEN {"fallback"} ELSE {})

RECURSIVE ExtractFrom(_, _)
ExtractFrom(d, batch) ==
    IF batch = <<>> THEN d ELSE ExtractFrom(ExtractFromDoc(d, Head(batch)), Tail(batch))

\* the dict extract_price_info returns for a batch
extract_price_info(batch) == ExtractFrom(<<>>, batch)

MaxPriceDocs == 2

PriceDocs ==
    { [page_content |-> <<"x","r","a","y"," ","c","o","s","t"," ","9","0","0">>,
       metadata |-> [has_price_info |-> TRUE, price_data |-> << <<<<"x","r","a","y">>, <<"5","0","0">>>> >>]],
      [page_content |-> <<"s","c","a","l","i","n","g"," ","f","e","e">>,
       metadata |-> [has_price_info |-> TRUE,
                     price_data |-> << <<<<"X","-","R","a","y">>, <<"4","5","0">>>>, <<<<"s","c","a","l","i","n","g">>, <<"7","0","0">>>> >>]],
      [page_content |-> <<"x","r","a","y"," ","c","o","s","t"," ","3","0","0">>, metadata |-> NoMetadata],
      [page_content |-> <<"R","o","o","t"," "," ","C","a","n","a","l"," ","p","r","i","c","e",":"," ","8","0","\n","x","r","a","y"," ","c","o","s","t","s"," ","2","0">>, metadata |-> NoMetadata],
      [page_content |-> <<"c","o","s","t"," ","3","0","0"," ","f","o","r"," ","d","e","n","t","a","l"," ","x","r","a","y">>, metadata |-> NoMetadata],
      [page_content |-> <<"c","h","a","r","g","e"," ","2","5","0"," ","f","i","l","l","i","n","g">>, metadata |-> NoMetadata],
      [page_content |-> <<"f","i","l","l","i","n","g"," ","c","h","a","r","g","e"," ","9","0">>, metadata |-> NoMetadata],
      [page_content |-> <<"x","-","r","a","y",":"," ","P","r","i","c","e"," ","6","0">>, metadata |-> [source |-> <<"a",".","p","d","f">>]],
      [page_content |-> <<"x","r","a","y"," ","c","o","s","t"," ","3","0","0">>,
       metadata |-> [has_price_info |-> FALSE, price_data |-> << <<<<"x","r","a","y">>, <<"5","0","0">>>> >>]],
      [page_content |-> <<"s","c","a","l","i","n","g"," ","p","r","i","c","e"," ","7","5">>, metadata |-> [has_price_info |-> TRUE]],
      [page_content |-> <<"o","p","e","n"," ","d","a","i","l","y">>, metadata |-> [source |-> <<"a",".","p","d","f">>]] }

RECURSIVE Batches(_, _)
\* the batches of at most n documents of pool
Batches(pool, n) ==
    IF n = 0 THEN {<<>>}
    ELSE LET shorter == Batches(pool, n - 1)
         IN  shorter \cup {Append(b, d) : b \in shorter, d \in pool}

\* extract_price_info, one document of the batch per step
ProcessDoc ==
    /\ doc_idx < Len(docs)
    /\ price_info' = ExtractFromDoc(price_info, docs[doc_idx + 1])
    /\ rules' = Append(rules, RulesFor(docs[doc_idx + 1]))
    /\ doc_idx' = doc_idx + 1
    /\ UNCHANGED <<docs, classifyVars, sentenceVars, contextVars, matchVars, composeVars,
                   appVars>>

(***************************************************************************)
(* src/document_utils.py: format_retrieved_context                         *)
(***************************************************************************)
MaxContentLength == 500
max_context_length == 4000
max_price_docs_cap == 3
max_other_docs_cap == 2

RECURSIVE IntStr(_)
\* str(n) for n >= 0
IntStr(n) ==
    LET digit == <<"0","1","2","3","4","5","6","7","8","9">>[(n % 10) + 1]
    IN  IF n < 10 THEN <<digit>> ELSE IntStr(n \div 10) \o <<digit>>

\* (?:price|cost|bdt|taka|tk)
PriceWord ==
    [ic |-> FALSE,
     r |-> Alt(<<Lit(<<"p","r","i","c","e">>), Lit(<<"c","o","s","t">>), Lit(<<"b","d","t">>), Lit(<<"t","a","k","a">>), Lit(<<"t","k">>)>>)]

has_price_keywords_only(doc) ==
    LET content == Strip(doc.page_content)
    IN  ReFound(PriceWord, ToLower(content))

\* has_price of the partition loop
has_price(doc) ==
    LET content == Strip(doc.page_content)
        \* \d+(?:\.\d+)?
        number == [ic |-> FALSE,
                   r |-> Cat(<<Plus(Digit), Opt(Cat(<<Set({"."}), Plus(Digit)>>))>>)]
    IN  ReFound(PriceWord, ToLower(content)) \/ ReFound(number, content)

\* truncate_content that cuts without the marker
truncate_content_unmarked(content) ==
    IF Len(content) > MaxContentLength
    THEN Slice(content, 0, MaxContentLength)
    ELSE content

\* content[:500] + "... [content truncated]" when len(content) > 500
truncate_content(content) ==
    IF Len(content) > MaxContentLength
    THEN Slice(content, 0, MaxContentLength) \o <<".",".","."," ","[","c","o","n","t","e","n","t"," ","t","r","u","n","c","a","t","e","d","]">>
    ELSE content

\* metadata_str
metadata_str(doc) ==
    IF DOMAIN doc.metadata # {}
    THEN LET source == IF "source" \in DOMAIN doc.metadata
                       THEN doc.metadata.source ELSE <<"U","n","k","n","o","w","n">>
             doc_type == IF "document_type" \in DOMAIN doc.metadata
                         THEN doc.metadata.document_type ELSE <<>>
         IN  <<" ","(","S","o","u","r","c","e",":"," ">> \o source
                \o (IF doc_type # <<>> THEN <<","," ","T","y","p","e",":"," ">> \o doc_type ELSE <<>>) \o <<")">>
    ELSE <<>>

\* f"[{label} {i+1}]{metadata_str}: {content}"
context_part(label, i, doc) ==
    <<"[">> \o label \o <<" ">> \o IntStr(i + 1) \o <<"]">> \o metadata_str(doc) \o <<":"," ">>
        \o truncate_content(Strip(doc.page_content))

\* the local variables of format_retrieved_context at its return
format_retrieved_context(batch, doc_type) ==
    LET all_price == SelectSeq(batch, has_price)
        all_other == SelectSeq(batch, LAMBDA d : ~has_price(d))
        price_docs == Slice(all_price, 0,
                            IF max_price_docs_cap < Len(all_price)
                            THEN max_price_docs_cap ELSE Len(all_price))
        other_docs == Slice(all_other, 0,
                            IF max_other_docs_cap < Len(all_other)
                            THEN max_other_docs_cap ELSE Len(all_other))
        header == IF doc_type.some /\ doc_type.val # <<>>
                  THEN << <<"-","-","-"," ">> \o doc_type.val \o <<" ","-","-","-">> >> ELSE <<>>
        context_parts ==
            header
            \o [i \in 1..Len(price_docs) |-> context_part(<<"P","R","I","C","E"," ","I","N","F","O">>, i - 1, price_docs[i])]
            \o [i \in 1..Len(other_docs) |-> context_part(<<"S","e","c","t","i","o","n">>, i - 1, other_docs[i])]
        joined == Join(<<"\n","\n">>, context_parts)
        \* result[:max_context_length] + "... [additional context truncated]" when too long
        result == IF Len(joined) > max_context_length
                  THEN Slice(joined, 0, max_context_length)
                            \o <<".",".","."," ","[","a","d","d","i","t","i","o","n","a","l"," ","c","o","n","t","e","x","t"," ","t","r","u","n","c","a","t","e","d","]">>
                  ELSE joined
    IN  IF batch = <<>>
        THEN [done |-> TRUE, price_docs |-> <<>>, other_docs |-> <<>>, context_parts |-> <<>>,
              joined |-> <<>>, result |-> <<>>]
        ELSE [done |-> TRUE, price_docs |-> price_docs, other_docs |-> other_docs,
              context_parts |-> context_parts, joined |-> joined,
              result |-> result]

MaxContextDocs == 2
MaxShortDocs == 4

\* n characters: unit repeated
Repeat(unit, n) == [k \in 1..n |-> unit[((k - 1) % Len(unit)) + 1]]

ShortDocs ==
    { [page_content |-> <<"G","e","n","e","r","a","l"," ","a","d","v","i","c","e",".">>, metadata |-> NoMetadata],
      [page_content |-> <<"S","c","a","l","i","n","g"," ","c","o","s","t","s"," ","7","0","0"," ","B","D","T">>,
       metadata |-> [source |-> <<"p","r","i","c","e","s",".","c","s","v">>, document_type |-> <<"P","r","i","c","i","n","g">>]] }

MoreShortDocs ==
    { [page_content |-> <<" ","R","o","o","m"," ","1","2",".">>, metadata |-> NoMetadata],
      [page_content |-> <<"O","p","e","n"," ","d","a","i","l","y",".">>, metadata |-> [source |-> <<"h","o","u","r","s",".","t","x","t">>]] }

LongDocs ==
    { [page_content |-> Repeat(<<"a","b","c","d","e","f","g">>, 501), metadata |-> [source |-> <<"a",".","p","d","f">>]],
      [page_content |-> <<" "," ">> \o Repeat(<<"h","i","j","k","l","m","n">>, 500) \o <<"\n">>, metadata |-> NoMetadata],
      [page_content |-> Repeat(<<"r","o","o","m"," ","1","2"," ">>, 620), metadata |-> NoMetadata],
      [page_content |-> <<"H","o","u","r","s",".">>, metadata |-> [source |-> Repeat(<<"s">>, 3600)]] }

\* format_retrieved_context(ctx_docs, ctx_type)
AssembleContext ==
    /\ ~context.done
    /\ context' = format_retrieved_context(ctx_docs, ctx_type)
    /\ UNCHANGED <<ctx_docs, ctx_type, classifyVars, sentenceVars, priceVars, matchVars, composeVars,
                   appVars>>
(***************************************************************************)
(* src/pattern_matching.py: treatments_match; src/utils.py: the memoized   *)
(* normalize_treatment_name                                                *)
(***************************************************************************)
\* the overlap threshold 0.7, in tenths: for set sizes k and n, the float
\* k / n >= 0.7 holds exactly when 10 * k >= 7 * n
OverlapThreshold == 7

\* set(norm.split())
WordSet(norm) == {Words(norm)[k] : k \in 1..Len(Words(norm))}

treatments_match_overlap_of_larger(treatment1, treatment2) ==
    LET norm1 == normalize_treatment_name(treatment1)
        norm2 == normalize_treatment_name(treatment2)
        words1 == WordSet(norm1)
        words2 == WordSet(norm2)
        intersection == words1 \cap words2
        larger_set_size == IF Cardinality(words1) > Cardinality(words2)
                           THEN Cardinality(words1) ELSE Cardinality(words2)
    IN  IF norm1 = norm2 THEN TRUE
        ELSE IF Contains(norm2, norm1) \/ Contains(norm1, norm2) THEN TRUE
        ELSE IF words1 = {} \/ words2 = {} THEN FALSE
        ELSE 10 * Cardinality(intersection) >= OverlapThreshold * larger_set_size

treatments_match(treatment1, treatment2) ==
    LET norm1 == normalize_treatment_name(treatment1)
        norm2 == normalize_treatment_name(treatment2)
        words1 == WordSet(norm1)
        words2 == WordSet(norm2)
        intersection == words1 \cap words2
        smaller_set_size == IF Cardinality(words1) < Cardinality(words2)
                            THEN Cardinality(words1) ELSE Cardinality(words2)
    IN  IF norm1 = norm2 THEN TRUE
        \* norm1 in norm2 or norm2 in norm1
        ELSE IF Contains(norm2, norm1) \/ Contains(norm1, norm2) THEN TRUE
        ELSE IF words1 = {} \/ words2 = {} THEN FALSE
        ELSE IF smaller_set_size = 0 THEN FALSE
        ELSE 10 * Cardinality(intersection) >= OverlapThreshold * smaller_set_size

\* src/utils.py: re.sub(r'[^a-z0-9]', '', name.lower()), the function under
\* the lru_cache decorator
utils_normalize_treatment_name(name) ==
    SelectSeq(ToLower(name), LAMBDA c : c \in {Lowers[k] : k \in 1..26} \cup Digits)

\* functools.lru_cache(maxsize=256): the entries <<argument, result>>, least
\* recently used first
lru_maxsize == 256

LruValue_of_oldest(cache, key) == cache[1][2]

\* the result stored for key
LruValue(cache, key) == cache[CHOOSE k \in 1..Len(cache) : cache[k][1] = key][2]

\* one call of the decorated normalize_treatment_name: the value returned,
\* whether it came from the cache, and the cache afterwards.  A hit makes the
\* entry the most recently used one; a miss stores the result, evicting the
\* least recently used entry of a full cache
cached_normalize_treatment_name(cache, name) ==
    IF \E k \in 1..Len(cache) : cache[k][1] = name
    THEN [val |-> LruValue(cache, name), hit |-> TRUE,
          cache |-> SelectSeq(cache, LAMBDA e : e[1] # name)
                        \o << <<name, LruValue(cache, name)>> >>]
    ELSE LET value == utils_normalize_treatment_name(name)
         IN  [val |-> value, hit |-> FALSE,
              cache |-> Append(IF Len(cache) >= lru_maxsize THEN Tail(cache) ELSE cache,
                               <<name, value>>)]

\* the threshold 0.6 of utils.py, in tenths: k / n > 0.6 holds exactly when
\* 10 * k > 6 * n
utils_overlap_threshold == 6

\* utils_treatments_match with the substring test made one way only
utils_treatments_match_one_way(query_norm, treatment_norm) ==
    LET query_words == WordSet(query_norm)
        treatment_words == WordSet(treatment_norm)
        common_words == query_words \cap treatment_words
        larger == IF Cardinality(query_words) > Cardinality(treatment_words)
                  THEN Cardinality(query_words) ELSE Cardinality(treatment_words)
    IN  IF query_norm = treatment_norm THEN TRUE
        ELSE IF Contains(treatment_norm, query_norm) THEN TRUE
        ELSE common_words # {} /\ 10 * Cardinality(common_words) > utils_overlap_threshold * larger

\* src/utils.py: the body of treatments_match after its two calls of
\* normalize_treatment_name
utils_treatments_match(query_norm, treatment_norm) ==
    LET query_words == WordSet(query_norm)
        treatment_words == WordSet(treatment_norm)
        common_words == query_words \cap treatment_words
        larger == IF Cardinality(query_words) > Cardinality(treatment_words)
                  THEN Cardinality(query_words) ELSE Cardinality(treatment_words)
    IN  IF query_norm = treatment_norm THEN TRUE
        \* query_norm in treatment_norm or treatment_norm in query_norm
        ELSE IF Contains(treatment_norm, query_norm) \/ Contains(query_norm, treatment_norm)
             THEN TRUE
        ELSE common_words # {} /\ 10 * Cardinality(common_words) > utils_overlap_threshold * larger

\* functools.lru_cache(maxsize=512) of treatments_match
match_lru_maxsize == 512

\* one call treatments_match(q, treatment) of the decorated function: the
\* value returned, whether it came from the cache, and both caches afterwards.
\* A miss runs the body, which calls the memoized normalize_treatment_name on
\* each argument
cached_treatments_match(cache, ncache, q, treatment) ==
    LET Computed(query_norm, treatment_norm) ==
            [val |-> utils_treatments_match(query_norm.val, treatment_norm.val),
             hit |-> FALSE,
             cache |-> Append(IF Len(cache) >= match_lru_maxsize THEN Tail(cache) ELSE cache,
                              <<<<q, treatment>>,
                                utils_treatments_match(query_norm.val, treatment_norm.val)>>),
             ncache |-> treatment_norm.cache]
        Second(query_norm) ==
            Computed(query_norm, cached_normalize_treatment_name(query_norm.cache, treatment))
    IN  IF \E k \in 1..Len(cache) : cache[k][1] = <<q, treatment>>
        THEN [val |-> LruValue(cache, <<q, treatment>>), hit |-> TRUE,
              cache |-> SelectSeq(cache, LAMBDA e : e[1] # <<q, treatment>>)
                            \o << <<<<q, treatment>>, LruValue(cache, <<q, treatment>>)>> >>,
              ncache |-> ncache]
        ELSE Second(cached_normalize_treatment_name(ncache, q))

(***************************************************************************)
(* The matcher as a state machine                                          *)
(***************************************************************************)
MaxNameLen == 3
MaxNormalizeCalls == 3

RECURSIVE NamesOfLen(_)
NamesOfLen(n) ==
    IF n = 0 THEN {<<>>}
    ELSE {Append(s, c) : s \in NamesOfLen(n - 1), c \in {"a", "B", " ", "-"}}

ExampleNames ==
    { <<"r","o","o","t"," ","c","a","n","a","l">>, <<"t","e","e","t","h"," ","w","h","i","t","e","n","i","n","g">>, <<"R","o","o","t"," "," ","C","a","n","a","l","!">>, <<"c","a","n","a","l"," ","r","o","o","t">>,
      <<"d","e","n","t","a","l"," ","c","l","e","a","n","i","n","g"," ","d","e","e","p">>, <<"d","e","e","p"," ","c","l","e","a","n","i","n","g">>, <<"X","-","R","a","y">>, <<"x","r","a","y">>, <<"x"," ","r","a","y"," ","2">>,
      <<>>, <<" ","-"," ">>, <<"a"," ","B">>, <<"B"," ","a">> }

\* normalize_treatment_name(name_a), in both modules
NormalizeName ==
    /\ normalized.calls = 0
    /\ normalized' = [calls |-> 1,
                      first |-> normalize_treatment_name(name_a), second |-> <<>>,
                      utils_first |-> utils_normalize_treatment_name(name_a),
                      utils_second |-> <<>>]
    /\ UNCHANGED <<name_a, name_b, matched, norm_cache, norm_log, match_cache, match_log,
                   classifyVars, sentenceVars, priceVars, contextVars, composeVars,
                   appVars>>

\* the function applied to its own result
NormalizeAgain ==
    /\ normalized.calls = 1
    /\ normalized' = [normalized EXCEPT
                        !.calls = 2,
                        !.second = normalize_treatment_name(normalized.first),
                        !.utils_second = utils_normalize_treatment_name(normalized.utils_first)]
    /\ UNCHANGED <<name_a, name_b, matched, norm_cache, norm_log, match_cache, match_log,
                   classifyVars, sentenceVars, priceVars, contextVars, composeVars,
                   appVars>>

\* treatments_match(name_a, name_b)
MatchNames ==
    /\ ~matched.done
    /\ matched' = [done |-> TRUE, result |-> treatments_match(name_a, name_b)]
    /\ UNCHANGED <<name_a, name_b, normalized, norm_cache, norm_log, match_cache, match_log,
                   classifyVars, sentenceVars, priceVars, contextVars, composeVars,
                   appVars>>

\* one call of the memoized normalize_treatment_name on either name
CachedNormalize ==
    /\ Len(norm_log) < MaxNormalizeCalls
    /\ \E name \in {name_a, name_b} :
         LET call == cached_normalize_treatment_name(norm_cache, name)
         IN  /\ norm_cache' = call.cache
             /\ norm_log' = Append(norm_log, [arg |-> name, val |-> call.val, hit |-> call.hit])
    /\ UNCHANGED <<name_a, name_b, normalized, matched, match_cache, match_log,
                   classifyVars, sentenceVars, priceVars, contextVars, composeVars,
                   appVars>>


MaxMatchCalls == 3

\* treatments_match of pattern_matching.py on the two names, in either order
PlainMatch ==
    /\ Len(match_log) < MaxMatchCalls
    /\ \E args \in {<<name_a, name_b>>, <<name_b, name_a>>} :
         match_log' = Append(match_log,
                             [memoized |-> FALSE, query |-> args[1], treatment |-> args[2],
                              val |-> treatments_match(args[1], args[2]), hit |-> FALSE])
    /\ UNCHANGED <<name_a, name_b, normalized, matched, norm_cache, norm_log, match_cache,
                   classifyVars, sentenceVars, priceVars, contextVars, composeVars,
                   appVars>>

\* one call of the memoized treatments_match of utils.py on the two names, in
\* either order
CachedMatch ==
    /\ Len(match_log) < MaxMatchCalls
    /\ \E args \in {<<name_a, name_b>>, <<name_b, name_a>>} :
         LET call == cached_treatments_match(match_cache, norm_cache, args[1], args[2])
         IN  /\ match_cache' = call.cache
             /\ norm_cache' = call.ncache
             /\ match_log' = Append(match_log,
                                    [memoized |-> TRUE, query |-> args[1], treatment |-> args[2],
                                     val |-> call.val, hit |-> call.hit])
    /\ UNCHANGED <<name_a, name_b, normalized, matched, norm_log,
                   classifyVars, sentenceVars, priceVars, contextVars, composeVars,
                   appVars>>
(***************************************************************************)
(* src/response_formatter.py and the response steps of src/utils.py        *)
(***************************************************************************)
\* the lists of RESPONSE_VARIATIONS the steps draw from; a template of
\* direct_price_response is the text before {treatment}, the text between
\* {treatment} and {price}, and the text after {price}
RESPONSE_VARIATIONS ==
    [direct_price_response |->
        << <<<<"T","h","e"," ","c","o","s","t"," ","f","o","r"," ">>, <<" ","i","s"," ">>, <<".","0","0"," ","B","D","T"," ","b","a","s","e","d"," ","o","n"," ","o","u","r"," ","h","e","a","l","t","h","c","a","r","e"," ","p","r","o","v","i","d","e","r"," ","d","a","t","a","b","a","s","e",".">>>>,
           <<<<>>, <<" ","c","o","s","t","s"," ">>, <<".","0","0"," ","B","D","T"," ","a","c","c","o","r","d","i","n","g"," ","t","o"," ","o","u","r"," ","c","u","r","r","e","n","t"," ","p","r","i","c","i","n","g"," ","i","n","f","o","r","m","a","t","i","o","n",".">>>>,
           <<<<"T","h","e"," ","p","r","i","c","e"," ","f","o","r"," ">>, <<" ","i","s"," ">>, <<".","0","0"," ","B","D","T"," ","a","s"," ","p","e","r"," ","o","u","r"," ","h","e","a","l","t","h","c","a","r","e"," ","r","e","c","o","r","d","s",".">>>>,
           <<<<"B","a","s","e","d"," ","o","n"," ","o","u","r"," ","d","a","t","a",","," ">>, <<" ","c","o","s","t","s"," ">>, <<".","0","0"," ","B","D","T",".">>>> >>,
     price_disclaimer |->
        << <<" ","A","c","t","u","a","l"," ","p","r","i","c","e","s"," ","m","a","y"," ","v","a","r","y"," ","d","e","p","e","n","d","i","n","g"," ","o","n"," ","t","h","e"," ","h","e","a","l","t","h","c","a","r","e"," ","f","a","c","i","l","i","t","y"," ","a","n","d"," ","s","p","e","c","i","f","i","c"," ","c","i","r","c","u","m","s","t","a","n","c","e","s",".">>,
           <<" ","P","l","e","a","s","e"," ","n","o","t","e"," ","t","h","a","t"," ","t","h","i","s"," ","i","s"," ","a","n"," ","a","p","p","r","o","x","i","m","a","t","e"," ","c","o","s","t"," ","a","n","d"," ","m","a","y"," ","v","a","r","y"," ","b","e","t","w","e","e","n"," ","p","r","o","v","i","d","e","r","s",".">>,
           <<" ","K","e","e","p"," ","i","n"," ","m","i","n","d"," ","t","h","a","t"," ","f","i","n","a","l"," ","c","o","s","t","s"," ","m","a","y"," ","d","i","f","f","e","r"," ","b","a","s","e","d"," ","o","n"," ","y","o","u","r"," ","s","p","e","c","i","f","i","c"," ","s","i","t","u","a","t","i","o","n"," ","a","n","d"," ","t","h","e"," ","h","e","a","l","t","h","c","a","r","e"," ","p","r","o","v","i","d","e","r",".">>,
           <<" ","T","h","i","s"," ","i","s"," ","a","n"," ","e","s","t","i","m","a","t","e","d"," ","c","o","s","t"," ","a","n","d"," ","a","c","t","u","a","l"," ","p","r","i","c","e","s"," ","m","i","g","h","t"," ","v","a","r","y",".">> >>,
     greeting |->
        << <<"H","e","l","l","o","!"," ","I","'","m"," ","L","o","c","a","l"," ","R","A","G"," ","C","h","a","t","b","o","t",","," ","y","o","u","r"," ","h","e","a","l","t","h","c","a","r","e"," ","a","s","s","i","s","t","a","n","t","."," ","H","o","w"," ","c","a","n"," ","I"," ","h","e","l","p"," ","y","o","u"," ","t","o","d","a","y","?">>,
           <<"H","i"," ","t","h","e","r","e","!"," ","I","'","m"," ","L","o","c","a","l"," ","R","A","G"," ","C","h","a","t","b","o","t",","," ","r","e","a","d","y"," ","t","o"," ","a","s","s","i","s","t"," ","w","i","t","h"," ","y","o","u","r"," ","h","e","a","l","t","h","c","a","r","e"," ","q","u","e","s","t","i","o","n","s","."," ","W","h","a","t"," ","c","a","n"," ","I"," ","h","e","l","p"," ","y","o","u"," ","w","i","t","h","?">>,
           <<"W","e","l","c","o","m","e","!"," ","I","'","m"," ","L","o","c","a","l"," ","R","A","G"," ","C","h","a","t","b","o","t",","," ","y","o","u","r"," ","m","e","d","i","c","a","l"," ","i","n","f","o","r","m","a","t","i","o","n"," ","a","s","s","i","s","t","a","n","t","."," ","H","o","w"," ","m","a","y"," ","I"," ","a","s","s","i","s","t"," ","y","o","u"," ","t","o","d","a","y","?">>,
           <<"G","r","e","e","t","i","n","g","s","!"," ","I","'","m"," ","L","o","c","a","l"," ","R","A","G"," ","C","h","a","t","b","o","t",","," ","h","e","r","e"," ","t","o"," ","h","e","l","p"," ","w","i","t","h"," ","y","o","u","r"," ","h","e","a","l","t","h","c","a","r","e"," ","i","n","q","u","i","r","i","e","s","."," ","W","h","a","t"," ","w","o","u","l","d"," ","y","o","u"," ","l","i","k","e"," ","t","o"," ","k","n","o","w","?">> >>]

\* the lists of add_human_touch
starters ==
    << <<"B","a","s","e","d"," ","o","n"," ","m","y"," ","i","n","f","o","r","m","a","t","i","o","n",","," ">>,
       <<"A","c","c","o","r","d","i","n","g"," ","t","o"," ","m","y"," ","d","a","t","a","b","a","s","e",","," ">>,
       <<"F","r","o","m"," ","w","h","a","t"," ","I"," ","c","a","n"," ","t","e","l","l",","," ">>,
       <<"A","s"," ","p","e","r"," ","m","y"," ","k","n","o","w","l","e","d","g","e",","," ">> >>

enders ==
    << <<" ","H","o","p","e"," ","t","h","a","t"," ","h","e","l","p","s","!">>,
       <<" ","D","o","e","s"," ","t","h","a","t"," ","a","n","s","w","e","r"," ","y","o","u","r"," ","q","u","e","s","t","i","o","n","?">>,
       <<" ","I","s"," ","t","h","e","r","e"," ","a","n","y","t","h","i","n","g"," ","e","l","s","e"," ","y","o","u","'","d"," ","l","i","k","e"," ","t","o"," ","k","n","o","w","?">>,
       <<" ","L","e","t"," ","m","e"," ","k","n","o","w"," ","i","f"," ","y","o","u"," ","n","e","e","d"," ","a","n","y"," ","c","l","a","r","i","f","i","c","a","t","i","o","n",".">> >>

\* RESPONSE_VARIATIONS of src/utils.py
utils_RESPONSE_VARIATIONS ==
    [uncertainty |->
        << <<"I"," ","d","o","n","'","t"," ","h","a","v","e"," ","i","n","f","o","r","m","a","t","i","o","n"," ","a","b","o","u","t"," ","t","h","a","t"," ","i","n"," ","m","y"," ","d","a","t","a","b","a","s","e","."," ","I","'","d"," ","r","e","c","o","m","m","e","n","d"," ","c","o","n","s","u","l","t","i","n","g"," ","w","i","t","h"," ","a"," ","h","e","a","l","t","h","c","a","r","e"," ","p","r","o","f","e","s","s","i","o","n","a","l"," ","f","o","r"," ","p","e","r","s","o","n","a","l","i","z","e","d"," ","a","d","v","i","c","e",".">>,
           <<"T","h","a","t","'","s"," ","b","e","y","o","n","d"," ","t","h","e"," ","s","c","o","p","e"," ","o","f"," ","m","y"," ","c","u","r","r","e","n","t"," ","k","n","o","w","l","e","d","g","e","."," ","P","l","e","a","s","e"," ","c","o","n","s","u","l","t"," ","w","i","t","h"," ","a"," ","q","u","a","l","i","f","i","e","d"," ","h","e","a","l","t","h","c","a","r","e"," ","p","r","o","v","i","d","e","r"," ","f","o","r"," ","s","p","e","c","i","f","i","c"," ","g","u","i","d","a","n","c","e",".">>,
           <<"I"," ","d","o","n","'","t"," ","h","a","v","e"," ","d","e","t","a","i","l","s"," ","o","n"," ","t","h","a","t"," ","i","n"," ","m","y"," ","r","e","c","o","r","d","s","."," ","I","t"," ","w","o","u","l","d"," ","b","e"," ","b","e","s","t"," ","t","o"," ","s","p","e","a","k"," ","w","i","t","h"," ","a"," ","h","e","a","l","t","h","c","a","r","e"," ","p","r","o","f","e","s","s","i","o","n","a","l"," ","f","o","r"," ","a","c","c","u","r","a","t","e"," ","i","n","f","o","r","m","a","t","i","o","n",".">>,
           <<"I","'","m"," ","n","o","t"," ","a","b","l","e"," ","t","o"," ","p","r","o","v","i","d","e"," ","i","n","f","o","r","m","a","t","i","o","n"," ","o","n"," ","t","h","a","t"," ","t","o","p","i","c","."," ","I","'","d"," ","s","u","g","g","e","s","t"," ","r","e","a","c","h","i","n","g"," ","o","u","t"," ","t","o"," ","a"," ","m","e","d","i","c","a","l"," ","p","r","o","f","e","s","s","i","o","n","a","l"," ","f","o","r"," ","a","s","s","i","s","t","a","n","c","e",".">> >>,
     pricing_unknown |->
        << <<"I"," ","d","o","n","'","t"," ","h","a","v","e"," ","p","r","i","c","i","n","g"," ","i","n","f","o","r","m","a","t","i","o","n"," ","a","b","o","u","t"," ","t","h","a","t"," ","i","n"," ","m","y"," ","d","a","t","a","b","a","s","e","."," ","P","l","e","a","s","e"," ","c","o","n","t","a","c","t"," ","t","h","e"," ","r","e","l","e","v","a","n","t"," ","h","e","a","l","t","h","c","a","r","e"," ","f","a","c","i","l","i","t","y"," ","d","i","r","e","c","t","l","y"," ","f","o","r"," ","c","u","r","r","e","n","t"," ","p","r","i","c","i","n","g",".">>,
           <<"I"," ","d","o","n","'","t"," ","h","a","v","e"," ","t","h","a","t"," ","s","p","e","c","i","f","i","c"," ","p","r","i","c","i","n","g"," ","i","n","f","o","r","m","a","t","i","o","n"," ","a","v","a","i","l","a","b","l","e","."," ","F","o","r"," ","t","h","e"," ","m","o","s","t"," ","u","p","-","t","o","-","d","a","t","e"," ","r","a","t","e","s",","," ","I","'","d"," ","r","e","c","o","m","m","e","n","d"," ","c","o","n","t","a","c","t","i","n","g"," ","t","h","e"," ","h","e","a","l","t","h","c","a","r","e"," ","p","r","o","v","i","d","e","r"," ","d","i","r","e","c","t","l","y",".">>,
           <<"T","h","a","t"," ","p","r","i","c","i","n","g"," ","i","n","f","o","r","m","a","t","i","o","n"," ","i","s","n","'","t"," ","i","n"," ","m","y"," ","d","a","t","a","b","a","s","e","."," ","Y","o","u","'","l","l"," ","n","e","e","d"," ","t","o"," ","c","h","e","c","k"," ","w","i","t","h"," ","t","h","e"," ","h","e","a","l","t","h","c","a","r","e"," ","f","a","c","i","l","i","t","y"," ","f","o","r"," ","t","h","e","i","r"," ","c","u","r","r","e","n","t"," ","r","a","t","e","s",".">>,
           <<"I"," ","d","o","n","'","t"," ","h","a","v","e"," ","a","c","c","e","s","s"," ","t","o"," ","t","h","a","t"," ","p","r","i","c","i","n","g"," ","d","a","t","a","."," ","F","o","r"," ","a","c","c","u","r","a","t","e"," ","c","o","s","t"," ","i","n","f","o","r","m","a","t","i","o","n",","," ","p","l","e","a","s","e"," ","r","e","a","c","h"," ","o","u","t"," ","t","o"," ","t","h","e"," ","h","e","a","l","t","h","c","a","r","e"," ","p","r","o","v","i","d","e","r"," ","d","i","r","e","c","t","l","y",".">> >>,
     transitions |->
        << <<"B","a","s","e","d"," ","o","n"," ","t","h","e"," ","i","n","f","o","r","m","a","t","i","o","n"," ","I"," ","h","a","v","e",","," ">>,
           <<"A","c","c","o","r","d","i","n","g"," ","t","o"," ","m","y"," ","d","a","t","a","b","a","s","e",","," ">>,
           <<"F","r","o","m"," ","w","h","a","t"," ","I"," ","u","n","d","e","r","s","t","a","n","d",","," ">>,
           <<"T","h","e"," ","i","n","f","o","r","m","a","t","i","o","n"," ","I"," ","h","a","v","e"," ","i","n","d","i","c","a","t","e","s"," ","t","h","a","t"," ">>,
           <<"M","y"," ","r","e","c","o","r","d","s"," ","s","h","o","w"," ","t","h","a","t"," ">> >>,
     acknowledgments |->
        << <<"I"," ","s","e","e"," ","y","o","u","'","r","e"," ","a","s","k","i","n","g"," ","a","b","o","u","t"," ">>,
           <<"Y","o","u","'","r","e"," ","i","n","t","e","r","e","s","t","e","d"," ","i","n"," ">>,
           <<"R","e","g","a","r","d","i","n","g"," ","y","o","u","r"," ","q","u","e","s","t","i","o","n"," ","a","b","o","u","t"," ">>,
           <<"C","o","n","c","e","r","n","i","n","g"," ">>,
           <<"A","b","o","u","t"," ","y","o","u","r"," ","i","n","q","u","i","r","y"," ","o","n"," ">> >>]

\* format_response with the greeting random.choice drew; max_sentences None is 0
format_response(txt, cap, intro) ==
    IF txt = <<>>
    THEN <<"I"," ","a","p","o","l","o","g","i","z","e",","," ","b","u","t"," ","I"," ","c","o","u","l","d","n","'","t"," ","f","i","n","d"," ","a","n","y"," ","r","e","l","e","v","a","n","t"," ","i","n","f","o","r","m","a","t","i","o","n"," ","f","o","r"," ","y","o","u","r"," ","q","u","e","r","y",".">>
    ELSE LET sentences == SplitOn(txt, ".")
             limited_text == IF cap # 0 /\ Len(sentences) > cap
                             THEN Join(<<"."," ">>, SubSeq(sentences, 1, cap)) \o <<".">>
                             ELSE txt
         IN  intro \o <<" ">> \o limited_text

format_direct_price_response_bare(name, amount, response_template, disclaimer) ==
    response_template[1] \o Title(Strip(name)) \o response_template[2] \o Strip(amount)
        \o response_template[3]

\* format_direct_price_response with the template and the disclaimer
\* random.choice drew
format_direct_price_response(name, amount, response_template, disclaimer) ==
    response_template[1] \o Title(Strip(name)) \o response_template[2] \o Strip(amount)
        \o response_template[3] \o disclaimer

FirstMatchEnd_of_last(txt, name) ==
    LET starts == {k \in 0..(Len(txt) - Len(name)) :
                        ToLower(SubSeq(txt, k + 1, k + Len(name))) = ToLower(name)}
    IN  IF starts = {} THEN -1
        ELSE (CHOOSE k \in starts : \A j \in starts : k >= j) + Len(name)

\* match.end() of re.search(re.escape(name), txt, re.IGNORECASE), -1 when
\* there is no match
FirstMatchEnd(txt, name) ==
    LET starts == {k \in 0..(Len(txt) - Len(name)) :
                        ToLower(SubSeq(txt, k + 1, k + Len(name))) = ToLower(name)}
    IN  IF starts = {} THEN -1
        ELSE (CHOOSE k \in starts : \A j \in starts : k <= j) + Len(name)

\* len(response) < 80
short_response_length == 80

add_price_info(txt, name, amount) ==
    LET price_str == amount \o <<".","0","0"," ","B","D","T">>
        sentence == <<" ","T","h","e"," ","c","o","s","t"," ","f","o","r"," ">> \o name \o <<" ","i","s"," ">> \o price_str \o <<".">>
    IN  IF Contains(txt, price_str) THEN txt
        ELSE IF Contains(ToLower(txt), ToLower(name)) /\ FirstMatchEnd(txt, name) >= 0
        THEN LET insert_pos == FirstMatchEnd(txt, name)
             IN  Slice(txt, 0, insert_pos) \o <<" ","c","o","s","t","s"," ">> \o price_str
                    \o SubSeq(txt, insert_pos + 1, Len(txt))
        ELSE IF Len(txt) < short_response_length THEN txt \o sentence
        ELSE IF EndsWith(txt, <<".">>) THEN txt \o sentence
        ELSE txt \o <<".">> \o sentence

\* the first item of price_info, in dict order, that the text mentions
RECURSIVE best_match(_, _)
best_match(txt, items) ==
    IF items = <<>> THEN <<>>
    ELSE IF Contains(ToLower(txt), ToLower(Head(items)[1])) THEN <<Head(items)>>
    ELSE best_match(txt, Tail(items))

\* format_price_response(response, price_info); None and {} are the empty dict
format_price_response(txt, items) ==
    LET \* the statements after the two that rewrite the prices of the text
        Priced(modified_response) ==
            LET has_price_already == ReFound(PRICE_FORMAT_PATTERN, modified_response)
                found == best_match(modified_response, items)
            IN  IF ~has_price_already /\ found # <<>>
                THEN add_price_info(modified_response, found[1][1], found[1][2])
                ELSE modified_response
    IN  IF items = <<>> THEN txt
        ELSE Priced(ReSub(SPACE_BEFORE_PRICE_PATTERN, Replace(txt, <<" ","B","D","T">>, <<".","0","0"," ","B","D","T">>),
                          [group |-> 0, text |-> <<" ">>]))

\* a step's outcome: the string returned, or the exception raised
Returned(val) == [raised |-> FALSE, val |-> val]
Raised == [raised |-> TRUE, val |-> <<>>]

\* response[0].lower() + response[1:], an IndexError on the empty string
LowerFirst(txt) == <<LowerChar(txt[1])>> \o Tail(txt)

\* add_human_touch of response_formatter.py: add_starter and add_ender are the
\* outcomes of random.random() < 0.3 and random.random() < 0.2, starter and
\* ender what random.choice drew
add_human_touch(txt, add_starter, starter, add_ender, ender) ==
    IF add_starter /\ txt = <<>> THEN Raised
    ELSE LET started == IF add_starter THEN starter \o LowerFirst(txt) ELSE txt
         IN  IF /\ add_ender
                /\ ~EndsWith(started, <<"?">>)
                /\ ~Contains(ToLower(started), <<"l","e","t"," ","m","e"," ","k","n","o","w">>)
             THEN Returned(started \o ender)
             ELSE Returned(started)

\* add_human_touch of utils.py: add_transition is the outcome of
\* random.random() < 0.3, the other arguments what random.choice drew
utils_add_human_touch(txt, add_transition, transition, uncertain, unknown) ==
    LET uncertainty_phrase == <<"I"," ","d","o","n","'","t"," ","h","a","v","e"," ","i","n","f","o","r","m","a","t","i","o","n"," ","a","b","o","u","t"," ","t","h","a","t"," ","i","n"," ","m","y"," ","d","a","t","a","b","a","s","e">>
        pricing_unknown_phrase == <<"I"," ","d","o","n","'","t"," ","h","a","v","e"," ","p","r","i","c","i","n","g"," ","i","n","f","o","r","m","a","t","i","o","n"," ","a","b","o","u","t"," ","t","h","a","t"," ","i","n"," ","m","y"," ","d","a","t","a","b","a","s","e">>
        phrases == utils_RESPONSE_VARIATIONS.transitions
                        \o utils_RESPONSE_VARIATIONS.acknowledgments
        \* if old in response: response = response.replace(old, new)
        Rephrased(s, old, new) == IF Contains(s, old) THEN Replace(s, old, new) ELSE s
        \* the statements after response = response.replace('#', '')
        Touched(cleaned) ==
            LET add == /\ add_transition
                       /\ ~\E k \in 1..Len(phrases) : StartsWith(cleaned, phrases[k])
            IN  IF add /\ cleaned = <<>> THEN Raised
                ELSE Returned(Rephrased(
                        Rephrased(IF add THEN transition \o LowerFirst(cleaned) ELSE cleaned,
                                  uncertainty_phrase, uncertain),
                        pricing_unknown_phrase, unknown))
    IN  Touched(Replace(txt, <<"#">>, <<>>))

\* format_price_response of utils.py
utils_format_price_response(txt, items) ==
    LET priced == ReSub(PRICE_FORMAT_PATTERN, txt, [group |-> 1, text |-> <<".","0","0"," ","B","D","T">>])
    IN  Replace(ReSub(SPACE_BEFORE_PRICE_PATTERN, priced, [group |-> 0, text |-> <<" ">>]),
                <<"#">>, <<>>)

(***************************************************************************)
(* The response steps as a state machine: one call of one step             *)
(***************************************************************************)
MaxDraftTokens == 3
MaxSentenceCap == 2

RECURSIVE DraftsOf(_)
\* the texts of at most n tokens
DraftsOf(n) ==
    IF n = 0 THEN {<<>>}
    ELSE LET shorter == DraftsOf(n - 1)
         IN  shorter \cup {d \o w : d \in shorter, w \in {<<"x","r","a","y">>, <<" ","i","s">>, <<" ","5","0","0">>, <<".","0","0">>, <<" ","B","D","T">>}}

Drafts ==
    DraftsOf(MaxDraftTokens) \cup
    { <<"A","n"," ","x","r","a","y"," ","i","s"," ","u","s","e","f","u","l",".">>, <<"x","r","a","y"," ","o","r"," ","X","R","A","Y",".">>, <<"A","n"," ","X","-","r","a","y"," ","a","n","d"," ","x","r","a","y",".">>,
      <<"P","l","e","a","s","e"," ","c","o","n","s","u","l","t"," ","a"," ","d","e","n","t","i","s","t",".">>, <<"X","-","R","a","y"," ","c","o","s","t","s"," ","5","0","0",".","0","0"," ","B","D","T",".">>, <<"x","r","a","y"," ","i","s"," ","5","0","0"," ","T","k">>,
      <<"x","r","a","y"," ","c","o","s","t","s"," ","5",".","0","0"," ","B","D","T">>, <<"I","s"," ","x","r","a","y"," ","s","a","f","e","?">>, <<"P","l","e","a","s","e"," ","l","e","t"," ","m","e"," ","k","n","o","w",".">>, <<"#","X","r","a","y","."," ","B","."," ","C">>,
      <<"I"," ","d","o","n","'","t"," ","h","a","v","e"," ","i","n","f","o","r","m","a","t","i","o","n"," ","a","b","o","u","t"," ","t","h","a","t"," ","i","n"," ","m","y"," ","d","a","t","a","b","a","s","e">>,
      <<"S","o","r","r","y","."," ","I"," ","d","o","n","'","t"," ","h","a","v","e"," ","p","r","i","c","i","n","g"," ","i","n","f","o","r","m","a","t","i","o","n"," ","a","b","o","u","t"," ","t","h","a","t"," ","i","n"," ","m","y"," ","d","a","t","a","b","a","s","e",".">>,
      <<"A","c","c","o","r","d","i","n","g"," ","t","o"," ","m","y"," ","d","a","t","a","b","a","s","e",","," ","x","r","a","y">>,
      <<"P","l","e","a","s","e"," ","c","o","n","s","u","l","t"," ","a"," ","d","e","n","t","i","s","t"," ","a","b","o","u","t"," ","t","h","e"," ","o","p","t","i","o","n","s"," ","t","h","a","t"," ","a","r","e"," ","a","v","a","i","l","a","b","l","e"," ","t","o"," ","y","o","u"," ","f","o","r"," ","t","h","i","s"," ","k","i","n","d"," ","o","f"," ","p","a","i","n">>,
      <<"P","l","e","a","s","e"," ","c","o","n","s","u","l","t"," ","a"," ","d","e","n","t","i","s","t"," ","a","b","o","u","t"," ","t","h","e"," ","o","p","t","i","o","n","s"," ","t","h","a","t"," ","a","r","e"," ","a","v","a","i","l","a","b","l","e"," ","t","o"," ","y","o","u"," ","f","o","r"," ","t","h","i","s"," ","k","i","n","d"," ","o","f"," ","p","a","i","n",".">> }

PriceMaps ==
    { <<>>,
      << <<<<"x","r","a","y">>, <<"5","0","0">>>> >>,
      << <<<<"X","-","R","a","y">>, <<"7","0","0">>>>, <<<<"x","r","a","y">>, <<"5","0","0">>>> >>,
      << <<<<"f","i","l","l","i","n","g">>, <<"3","0","0">>>>, <<<<"x","r","a","y">>, <<"5","0","0">>>> >> }

Outcome(step, result) ==
    [step |-> step, raised |-> result.raised, val |-> result.val, calls |-> 1, second |-> <<>>]

\* format_response(draft, sentence_cap)
FormatResponse ==
    /\ response.step = "none"
    /\ \E d \in Drafts, cap \in 0..MaxSentenceCap,
          k \in 1..Len(RESPONSE_VARIATIONS.greeting) :
         /\ draft' = d
         /\ sentence_cap' = cap
         /\ response' = Outcome("format_response",
                Returned(format_response(d, cap, RESPONSE_VARIATIONS.greeting[k])))
    /\ UNCHANGED <<price_map, arg_treatment, arg_price,
                   classifyVars, sentenceVars, priceVars, contextVars, matchVars, appVars>>

\* format_direct_price_response(arg_treatment, arg_price)
FormatDirectPrice ==
    /\ response.step = "none"
    /\ \E name \in {<<"x","-","r","a","y">>, <<" ","r","o","o","t"," ","c","a","n","a","l"," ">>, <<"R","O","O","T">>, <<"d","o","n","'","t"," ","3","d">>, <<>>, <<"5","0","0",".","0","0"," ","b","d","t">>},
          amount \in {<<"5","0","0">>, <<" ","1","2","0","0"," ">>, <<"0">>, <<>>},
          t \in 1..Len(RESPONSE_VARIATIONS.direct_price_response),
          d \in 1..Len(RESPONSE_VARIATIONS.price_disclaimer) :
         /\ arg_treatment' = name
         /\ arg_price' = amount
         /\ response' = Outcome("format_direct_price_response",
                Returned(format_direct_price_response(name, amount,
                            RESPONSE_VARIATIONS.direct_price_response[t],
                            RESPONSE_VARIATIONS.price_disclaimer[d])))
    /\ UNCHANGED <<draft, price_map, sentence_cap,
                   classifyVars, sentenceVars, priceVars, contextVars, matchVars, appVars>>

\* format_price_response(draft, price_map)
FormatPrice ==
    /\ response.step = "none"
    /\ \E d \in Drafts, items \in PriceMaps :
         /\ draft' = d
         /\ price_map' = items
         /\ response' = Outcome("format_price_response",
                Returned(format_price_response(d, items)))
    /\ UNCHANGED <<sentence_cap, arg_treatment, arg_price,
                   classifyVars, sentenceVars, priceVars, contextVars, matchVars, appVars>>

\* format_price_response applied to its own result
FormatPriceAgain ==
    /\ response.step = "format_price_response"
    /\ response.calls = 1
    /\ response' = [response EXCEPT
                        !.calls = 2,
                        !.second = format_price_response(response.val, price_map)]
    /\ UNCHANGED <<draft, price_map, sentence_cap, arg_treatment, arg_price,
                   classifyVars, sentenceVars, priceVars, contextVars, matchVars, appVars>>

\* format_price_response of utils.py
UtilsFormatPrice ==
    /\ response.step = "none"
    /\ \E d \in Drafts, items \in PriceMaps :
         /\ draft' = d
         /\ price_map' = items
         /\ response' = Outcome("utils.format_price_response",
                Returned(utils_format_price_response(d, items)))
    /\ UNCHANGED <<sentence_cap, arg_treatment, arg_price,
                   classifyVars, sentenceVars, priceVars, contextVars, matchVars, appVars>>

\* ensure_sentence_limit(draft, sentence_cap)
LimitResponse ==
    /\ response.step = "none"
    /\ \E d \in Drafts, cap \in 0..MaxSentenceCap :
         /\ draft' = d
         /\ sentence_cap' = cap
         /\ response' = Outcome("ensure_sentence_limit",
                Returned(ensure_sentence_limit(d, cap)))
    /\ UNCHANGED <<price_map, arg_treatment, arg_price,
                   classifyVars, sentenceVars, priceVars, contextVars, matchVars, appVars>>

\* add_human_touch(draft) of response_formatter.py, under every outcome of its
\* random draws
AddHumanTouch ==
    /\ response.step = "none"
    /\ \E d \in Drafts, add_starter \in BOOLEAN, add_ender \in BOOLEAN,
          s \in 1..Len(starters), n \in 1..Len(enders) :
         /\ draft' = d
         /\ response' = Outcome("add_human_touch",
                add_human_touch(d, add_starter, starters[s], add_ender, enders[n]))
    /\ UNCHANGED <<price_map, sentence_cap, arg_treatment, arg_price,
                   classifyVars, sentenceVars, priceVars, contextVars, matchVars, appVars>>

\* add_human_touch(draft) of utils.py, under every outcome of its random draws
UtilsAddHumanTouch ==
    /\ response.step = "none"
    /\ \E d \in Drafts, add_transition \in BOOLEAN,
          t \in 1..Len(utils_RESPONSE_VARIATIONS.transitions),
          u \in 1..Len(utils_RESPONSE_VARIATIONS.uncertainty),
          p \in 1..Len(utils_RESPONSE_VARIATIONS.pricing_unknown) :
         /\ draft' = d
         /\ response' = Outcome("utils.add_human_touch",
                utils_add_human_touch(d, add_transition,
                    utils_RESPONSE_VARIATIONS.transitions[t],
                    utils_RESPONSE_VARIATIONS.uncertainty[u],
                    utils_RESPONSE_VARIATIONS.pricing_unknown[p]))
    /\ UNCHANGED <<price_map, sentence_cap, arg_treatment, arg_price,
                   classifyVars, sentenceVars, priceVars, contextVars, matchVars, appVars>>


(***************************************************************************)
(* src/app.py: the routes /api/chat, /chat, /api/price and /api/clear-cache*)
(* src/cache.py: clear_caches                                              *)
(*                                                                         *)
(* in_maintenance_mode is app_state["in_maintenance_mode"] as the setup at *)
(* import time leaves it: true when an import raised, and no route changes *)
(* it.  A request is [kind, text]: kind is "invalid" (get_json raises),    *)
(* "null" (no body, no argument), "empty" (an object without the key),     *)
(* "number" (the key holds something that is not a str) or "text".         *)
(***************************************************************************)
ERROR_RESPONSES ==
    << <<"I"," ","a","p","o","l","o","g","i","z","e",","," ","b","u","t"," ","I","'","m"," ","h","a","v","i","n","g"," ","t","r","o","u","b","l","e"," ","p","r","o","c","e","s","s","i","n","g"," ","y","o","u","r"," ","r","e","q","u","e","s","t"," ","r","i","g","h","t"," ","n","o","w","."," ","C","o","u","l","d"," ","y","o","u"," ","t","r","y"," ","r","e","p","h","r","a","s","i","n","g"," ","y","o","u","r"," ","q","u","e","s","t","i","o","n","?">>,
       <<"S","o","m","e","t","h","i","n","g"," ","w","e","n","t"," ","w","r","o","n","g"," ","w","h","i","l","e"," ","I"," ","w","a","s"," ","r","e","t","r","i","e","v","i","n","g"," ","t","h","a","t"," ","i","n","f","o","r","m","a","t","i","o","n","."," ","C","a","n"," ","y","o","u"," ","t","r","y"," ","a","s","k","i","n","g"," ","i","n"," ","a"," ","d","i","f","f","e","r","e","n","t"," ","w","a","y","?">>,
       <<"I"," ","s","e","e","m"," ","t","o"," ","b","e"," ","h","a","v","i","n","g"," ","d","i","f","f","i","c","u","l","t","y"," ","w","i","t","h"," ","t","h","a","t"," ","q","u","e","s","t","i","o","n","."," ","C","o","u","l","d"," ","y","o","u"," ","t","r","y"," ","a","g","a","i","n"," ","o","r"," ","a","s","k"," ","s","o","m","e","t","h","i","n","g"," ","e","l","s","e","?">>,
       <<"I"," ","r","a","n"," ","i","n","t","o"," ","a","n"," ","i","s","s","u","e"," ","w","h","i","l","e"," ","p","r","o","c","e","s","s","i","n","g"," ","y","o","u","r"," ","q","u","e","s","t","i","o","n","."," ","C","o","u","l","d"," ","y","o","u"," ","t","r","y"," ","a","g","a","i","n"," ","w","i","t","h"," ","a"," ","m","o","r","e"," ","s","p","e","c","i","f","i","c"," ","q","u","e","r","y","?">> >>

MAINTENANCE_RESPONSES ==
    << <<"I","'","m"," ","c","u","r","r","e","n","t","l","y"," ","i","n"," ","m","a","i","n","t","e","n","a","n","c","e"," ","m","o","d","e"," ","a","n","d"," ","c","a","n","'","t"," ","p","r","o","c","e","s","s"," ","y","o","u","r"," ","r","e","q","u","e","s","t"," ","r","i","g","h","t"," ","n","o","w","."," ","P","l","e","a","s","e"," ","t","r","y"," ","a","g","a","i","n"," ","l","a","t","e","r",".">>,
       <<"O","u","r"," ","s","y","s","t","e","m"," ","i","s"," ","u","n","d","e","r","g","o","i","n","g"," ","m","a","i","n","t","e","n","a","n","c","e"," ","a","t"," ","t","h","e"," ","m","o","m","e","n","t","."," ","P","l","e","a","s","e"," ","t","r","y"," ","a","g","a","i","n"," ","i","n"," ","a"," ","l","i","t","t","l","e"," ","w","h","i","l","e",".">>,
       <<"I","'","m"," ","s","o","r","r","y",","," ","b","u","t"," ","I","'","m"," ","t","e","m","p","o","r","a","r","i","l","y"," ","u","n","a","v","a","i","l","a","b","l","e"," ","d","u","e"," ","t","o"," ","s","y","s","t","e","m"," ","m","a","i","n","t","e","n","a","n","c","e","."," ","P","l","e","a","s","e"," ","c","h","e","c","k"," ","b","a","c","k"," ","s","o","o","n",".">>,
       <<"T","h","e"," ","s","e","r","v","i","c","e"," ","i","s"," ","c","u","r","r","e","n","t","l","y"," ","u","n","d","e","r","g","o","i","n","g"," ","u","p","d","a","t","e","s","."," ","P","l","e","a","s","e"," ","t","r","y"," ","a","g","a","i","n"," ","l","a","t","e","r"," ","w","h","e","n"," ","w","e","'","r","e"," ","b","a","c","k"," ","o","n","l","i","n","e",".">> >>

\* What a call process_query(question) can do, seen from the routes: raise,
\* return None or return a str, after storing the question in any of the
\* caches (services/query_processor.py is not part of the sources)
ProcessOutcomes ==
    [kind : {"raised", "none"}, val : {<<>>},
     cached : {{}, {"response_cache", "treatment_cache"}}]
        \cup [kind : {"text"},
              val : {<<>>, <<"P","l","e","a","s","e"," ","c","o","n","s","u","l","t"," ","a"," ","d","e","n","t","i","s","t",".">>, <<"T","h","e"," ","c","o","s","t"," ","i","s"," ","5","0","0",".","0","0"," ","B","D","T",".">>},
              cached : {{}, {"response_cache", "treatment_cache"}}]

\* the caches, as the set of <<cache, key>> they hold, after clear_caches()
clear_caches(held) == {}

\* query.upper().endswith("BDT") or is_direct_price_query(query)
is_bdt_price_query(q) ==
    EndsWith([k \in 1..Len(q) |-> UpperChar(q[k])], <<"B","D","T">>) \/ is_direct_price_query(q)

\* the request handled, the HTTP status and the JSON body returned (the body
\* has one text under key, and the flags and the price some routes add), the
\* components the handler called and what process_query did, if called
Reply(route, request, status, key, body_text, invoked, outcome) ==
    [route |-> route, request |-> request, status |-> status, key |-> key,
     text |-> body_text, invoked |-> invoked, outcome |-> outcome,
     maintenance_mode |-> FALSE, is_price_query |-> FALSE, price |-> None]

NotCalled == [kind |-> "none", val |-> <<>>, cached |-> {}]

MaxRequests == 2

\* chat() and legacy_chat(): the two routes differ in the key of the request
\* ('message', 'question'), the key of the answer ('response', 'answer') and
\* in nothing else that is kept here
ChatRoute(route, key) ==
    /\ served < MaxRequests
    /\ \E request \in [kind : {"invalid", "null", "empty", "number"}, text : {<<>>}]
                        \cup [kind : {"text"},
                              text : {<<>>, <<" ","X","-","R","a","y"," ","B","D","T">>, <<"w","h","a","t"," ","i","s"," ","a"," ","f","i","l","l","i","n","g">>}],
          outcome \in ProcessOutcomes,
          m \in 1..Len(MAINTENANCE_RESPONSES), e \in 1..Len(ERROR_RESPONSES) :
         \* the draws and the call that the request does not get to are left out
         /\ in_maintenance_mode \/ m = 1
         /\ (in_maintenance_mode \/ request.kind # "text") => outcome = NotCalled
         /\ (\/ in_maintenance_mode
             \/ request.kind \in {"null", "empty"}
             \/ (request.kind = "text" /\ outcome.kind = "text" /\ outcome.val # <<>>))
                => e = 1
         /\ LET question == Strip(request.text)
                answered == Reply(route, request, 200, key,
                                  IF outcome.kind = "text" /\ outcome.val # <<>>
                                  THEN outcome.val ELSE ERROR_RESPONSES[e],
                                  <<"process_query">>, outcome)
            IN  IF in_maintenance_mode
                THEN /\ reply' =
                           [Reply(route, request, 200, key, MAINTENANCE_RESPONSES[m],
                                  <<>>, NotCalled) EXCEPT !.maintenance_mode = TRUE]
                     /\ caches' = caches
                ELSE IF request.kind \in {"invalid", "number"}
                \* get_json() or .strip() raises: the outer except answers
                THEN /\ reply' =
                           Reply(route, request, 200, key, ERROR_RESPONSES[e], <<>>, NotCalled)
                     /\ caches' = caches
                ELSE IF request.kind \in {"null", "empty"}
                THEN /\ reply' =
                           Reply(route, request, 400, "error",
                                 IF key = "response" THEN <<"N","o"," ","m","e","s","s","a","g","e"," ","p","r","o","v","i","d","e","d">>
                                 ELSE <<"N","o"," ","q","u","e","s","t","i","o","n"," ","p","r","o","v","i","d","e","d">>, <<>>, NotCalled)
                     /\ caches' = caches
                ELSE /\ reply' =
                           [answered EXCEPT !.is_price_query = is_bdt_price_query(question)]
                     /\ caches' = caches \cup {<<c, question>> : c \in outcome.cached}
    /\ served' = served + 1
    /\ UNCHANGED <<in_maintenance_mode, classifyVars, sentenceVars, priceVars, contextVars,
                   matchVars, composeVars>>

\* chat() with the try around process_query left out: what process_query
\* raises reaches the outer handler's caller as a 500
Chat_unprotected ==
    /\ served < MaxRequests
    /\ ~in_maintenance_mode
    /\ \E request \in [kind : {"text"}, text : {<<>>, <<" ","X","-","R","a","y"," ","B","D","T">>, <<"w","h","a","t"," ","i","s"," ","a"," ","f","i","l","l","i","n","g">>}],
          outcome \in ProcessOutcomes :
         /\ reply' =
                IF outcome.kind = "raised"
                THEN Reply("/api/chat", request, 500, "error", <<"I","n","t","e","r","n","a","l"," ","s","e","r","v","e","r"," ","e","r","r","o","r">>,
                           <<"process_query">>, outcome)
                ELSE Reply("/api/chat", request, 200, "response", outcome.val,
                           <<"process_query">>, outcome)
         /\ caches' = caches \cup {<<c, Strip(request.text)>> : c \in outcome.cached}
    /\ served' = served + 1
    /\ UNCHANGED <<in_maintenance_mode, classifyVars, sentenceVars, priceVars, contextVars,
                   matchVars, composeVars>>

\* POST /api/chat
Chat == ChatRoute("/api/chat", "response")

\* POST /chat
LegacyChat == ChatRoute("/chat", "answer")

\* GET /api/price?treatment=...
DirectPriceQuery ==
    /\ served < MaxRequests
    /\ \E request \in [kind : {"null"}, text : {<<>>}]
                        \cup [kind : {"text"}, text : {<<>>, <<"X","-","R","a","y">>}],
          outcome \in ProcessOutcomes,
          m \in 1..Len(MAINTENANCE_RESPONSES), e \in 1..Len(ERROR_RESPONSES) :
         /\ in_maintenance_mode \/ m = 1
         /\ (in_maintenance_mode \/ request.text = <<>>) => outcome = NotCalled
         /\ (in_maintenance_mode \/ request.text = <<>> \/ outcome.kind = "text") => e = 1
         /\ LET route == "/api/price"
                asked == request.text \o <<" ","B","D","T">>
                \* re.search(r'(\d+(?:\.\d+)?)\s*(?:BDT|Tk)', response)
                price_match ==
                   SearchFrom([ic |-> FALSE,
                               r |-> Cat(<<Group(1, Cat(<<Plus(Digit),
                                                         Opt(Cat(<<Lit(<<".">>), Plus(Digit)>>))>>)),
                                           Star(WS), Alt(<<Lit(<<"B","D","T">>), Lit(<<"T","k">>)>>)>>)],
                              outcome.val, 1)
            IN  IF in_maintenance_mode
                THEN /\ reply' =
                           [Reply(route, request, 503, "response", MAINTENANCE_RESPONSES[m],
                                  <<>>, NotCalled) EXCEPT !.maintenance_mode = TRUE]
                     /\ caches' = caches
                ELSE IF request.text = <<>>
                THEN /\ reply' =
                           Reply(route, request, 400, "error", <<"N","o"," ","t","r","e","a","t","m","e","n","t"," ","s","p","e","c","i","f","i","e","d">>,
                                 <<>>, NotCalled)
                     /\ caches' = caches
                ELSE /\ reply' =
                           IF outcome.kind = "text"
                           THEN [Reply(route, request, 200, "response", outcome.val,
                                       <<"process_query">>, outcome)
                                   EXCEPT !.price = IF price_match.ok
                                                    THEN Some(GroupText(price_match, outcome.val, 1))
                                                    ELSE None]
                           \* process_query raised, or re.search did on None
                           ELSE Reply(route, request, 200, "response", ERROR_RESPONSES[e],
                                      <<"process_query">>, outcome)
                     /\ caches' = caches \cup {<<c, asked>> : c \in outcome.cached}
    /\ served' = served + 1
    /\ UNCHANGED <<in_maintenance_mode, classifyVars, sentenceVars, priceVars, contextVars,
                   matchVars, composeVars>>

\* clear_cache() without the maintenance check
ClearCache_unguarded ==
    /\ served < MaxRequests
    /\ reply' =
            Reply("/api/clear-cache", [kind |-> "null", text |-> <<>>], 200, "message",
                  <<"A","l","l"," ","c","a","c","h","e","s"," ","c","l","e","a","r","e","d"," ","s","u","c","c","e","s","s","f","u","l","l","y">>, <<"clear_caches">>, NotCalled)
    /\ caches' = clear_caches(caches)
    /\ served' = served + 1
    /\ UNCHANGED <<in_maintenance_mode, classifyVars, sentenceVars, priceVars, contextVars,
                   matchVars, composeVars>>

\* POST /api/clear-cache
ClearCache ==
    /\ served < MaxRequests
    /\ IF in_maintenance_mode
       THEN /\ reply' =
                    Reply("/api/clear-cache", [kind |-> "null", text |-> <<>>], 503, "message",
                          <<"C","a","n","n","o","t"," ","c","l","e","a","r"," ","c","a","c","h","e"," ","w","h","i","l","e"," ","i","n"," ","m","a","i","n","t","e","n","a","n","c","e"," ","m","o","d","e">>, <<>>, NotCalled)
            /\ caches' = caches
       ELSE /\ reply' =
                    Reply("/api/clear-cache", [kind |-> "null", text |-> <<>>], 200, "message",
                          <<"A","l","l"," ","c","a","c","h","e","s"," ","c","l","e","a","r","e","d"," ","s","u","c","c","e","s","s","f","u","l","l","y">>, <<"clear_caches">>, NotCalled)
            /\ caches' = clear_caches(caches)
    /\ served' = served + 1
    /\ UNCHANGED <<in_maintenance_mode, classifyVars, sentenceVars, priceVars, contextVars,
                   matchVars, composeVars>>
(***************************************************************************)
(* Specifications: one per component, and the whole                        *)
(***************************************************************************)
\* The state after construction: the named component has its inputs drawn,
\* every other component is idle
InitOf(component) ==
    /\ query \in (IF component = "classify" THEN Queries ELSE {<<>>})
    /\ classification = [done |-> FALSE, is_price_query |-> FALSE,
                         is_direct_price_query |-> FALSE, treatment_name |-> None]
    /\ text \in (IF component = "sentences" THEN Texts ELSE {<<>>})
    /\ max_sentences \in (IF component = "sentences" THEN 0..MaxLimit ELSE {0})
    /\ limited = [calls |-> 0, first |-> <<>>, second |-> <<>>]
    /\ docs \in (IF component = "price" THEN Batches(PriceDocs, MaxPriceDocs) ELSE {<<>>})
    /\ doc_idx = 0
    /\ price_info = <<>>
    /\ rules = <<>>
    /\ ctx_docs \in (IF component = "context"
                      THEN Batches(ShortDocs \cup LongDocs, MaxContextDocs)
                               \cup Batches(ShortDocs \cup MoreShortDocs, MaxShortDocs)
                      ELSE {<<>>})
    /\ ctx_type \in (IF component = "context"
                      THEN {None, Some(<<>>), Some(<<"M","e","d","i","c","a","l"," ","I","n","f","o","r","m","a","t","i","o","n">>)}
                      ELSE {None})
    /\ context = [done |-> FALSE, price_docs |-> <<>>, other_docs |-> <<>>,
                  context_parts |-> <<>>, joined |-> <<>>, result |-> <<>>]
    /\ name_a \in (IF component \in {"match", "memo"}
                    THEN ExampleNames \cup UNION {NamesOfLen(n) : n \in 0..MaxNameLen}
                    ELSE {<<>>})
    /\ name_b \in (IF component \in {"match", "memo"} THEN ExampleNames ELSE {<<>>})
    /\ normalized = [calls |-> 0, first |-> <<>>, second |-> <<>>,
                     utils_first |-> <<>>, utils_second |-> <<>>]
    /\ matched = [done |-> FALSE, result |-> FALSE]
    /\ norm_cache = <<>>
    /\ norm_log = <<>>
    /\ match_cache = <<>>
    /\ match_log = <<>>
    /\ draft = <<>>
    /\ price_map = <<>>
    /\ sentence_cap = 0
    /\ arg_treatment = <<>>
    /\ arg_price = <<>>
    /\ response = [step |-> "none", raised |-> FALSE, val |-> <<>>, calls |-> 0,
                   second |-> <<>>]
    /\ in_maintenance_mode \in (IF component = "app" THEN BOOLEAN ELSE {FALSE})
    /\ caches = {}
    /\ reply = Reply("", [kind |-> "null", text |-> <<>>], 0, "", <<>>, <<>>, NotCalled)
    /\ served = 0

SpecClassify == InitOf("classify") /\ [][Classify]_vars
SpecSentences == InitOf("sentences") /\ [][LimitSentences \/ LimitAgain]_vars
SpecPrice == InitOf("price") /\ [][ProcessDoc]_vars
SpecContext == InitOf("context") /\ [][AssembleContext]_vars
SpecMatch ==
    InitOf("match") /\ [][NormalizeName \/ NormalizeAgain \/ MatchNames \/ CachedNormalize]_vars
SpecMemo == InitOf("memo") /\ [][PlainMatch \/ CachedMatch]_vars
SpecCompose ==
    InitOf("compose")
        /\ [][\/ FormatResponse \/ FormatDirectPrice \/ FormatPrice \/ FormatPriceAgain
              \/ UtilsFormatPrice \/ LimitResponse \/ AddHumanTouch \/ UtilsAddHumanTouch]_vars

SpecApp == InitOf("app") /\ [][Chat \/ LegacyChat \/ DirectPriceQuery \/ ClearCache]_vars

Init == \E component \in {"classify", "sentences", "price", "context", "match", "memo",
                          "compose", "app"} :
            InitOf(component)
Next ==
    \/ Classify \/ LimitSentences \/ LimitAgain \/ ProcessDoc \/ AssembleContext
    \/ NormalizeName \/ NormalizeAgain \/ MatchNames \/ CachedNormalize
    \/ PlainMatch \/ CachedMatch
    \/ FormatResponse \/ FormatDirectPrice \/ FormatPrice \/ FormatPriceAgain
    \/ UtilsFormatPrice \/ LimitResponse \/ AddHumanTouch \/ UtilsAddHumanTouch
    \/ Chat \/ LegacyChat \/ DirectPriceQuery \/ ClearCache
Spec == Init /\ [][Next]_vars

(***************************************************************************)
(* Properties                                                              *)
(***************************************************************************)

\* C1: a query classified as a direct price query always carries a treatment
\* name: is_direct_price_query(q) implies extract_treatment_from_query(q) is
\* not None.
C1_DirectPriceHasTreatment ==
    (classification.done /\ classification.is_direct_price_query)
        => classification.treatment_name.some

\* C2: the string format_retrieved_context returns is never longer than 4000
\* characters, whatever the documents and the doc_type.
C2_ContextWithinBudget ==
    context.done => Len(context.result) <= max_context_length

\* the documents format_retrieved_context kept, in the order of their parts
Selected == context.price_docs \o context.other_docs

\* the part of context_parts written for the k-th kept document
PartOf(k) == context.context_parts[Len(context.context_parts) - Len(Selected) + k]

C4_KeysNormalized ==
    doc_idx = Len(docs) =>
        \A key \in DictKeys(price_info) : normalize_treatment_name(key) = key

\* the keys the documents of the batch give in their price metadata
MetadataKeys ==
    UNION {DictKeys(docs[i].metadata.price_data) :
              i \in {i \in 1..Len(docs) : HasPriceMetadata(docs[i])}}

\* C4 amended: every key of the price map that was scanned from content is
\* lowercase and trimmed (key.strip().lower() = key); keys from metadata
\* price_data are kept as given.
C4_ScannedKeysLowerTrimmed ==
    \A key \in DictKeys(price_info) \ MetadataKeys :
        ToLower(key) = key /\ Strip(key) = key

\* C4 happens: the returned map has a key scanned from content that is
\* lowercase and trimmed and yet not normalized.
C4_Witness ==
    /\ doc_idx = Len(docs)
    /\ \E key \in DictKeys(price_info) \ MetadataKeys :
          /\ normalize_treatment_name(key) # key
          /\ ToLower(key) = key /\ Strip(key) = key

\* C5: a document with has_price_info and price_data contributes exactly the
\* entries of price_data (its content adds nothing), and for a batch of that
\* single document the result is price_data.
C5_MetadataVerbatim ==
    /\ [](  (Len(docs) = 1 /\ doc_idx = 1 /\ HasPriceMetadata(docs[1]))
                => price_info = docs[1].metadata.price_data)
    /\ [][  (doc_idx < Len(docs) /\ HasPriceMetadata(docs[doc_idx + 1])) =>
               LET price_data == docs[doc_idx + 1].metadata.price_data
               IN  /\ DictKeys(price_info') = DictKeys(price_info) \cup DictKeys(price_data)
                   /\ \A key \in DictKeys(price_info') :
                         DictGet(price_info', key) =
                            IF key \in DictKeys(price_data) THEN DictGet(price_data, key)
                            ELSE DictGet(price_info, key)
         ]_vars

\* C5 happens: the only document of the batch has price metadata and a content
\* from which scanning would extract a price.
C5_Witness ==
    /\ Len(docs) = 1 /\ doc_idx = 1
    /\ HasPriceMetadata(docs[1])
    /\ ReFound(TREATMENT_PRICE_PATTERN, docs[1].page_content)
    /\ price_info = docs[1].metadata.price_data

\* C6: when one document of a batch gives a price for a key in its metadata
\* and the other gives a different price for that key in its text, the
\* returned map holds the metadata price, in either order of the two.
C6_MetadataPriceWins ==
    (Len(docs) = 2 /\ doc_idx = 2) =>
        \A i \in 1..2 :
            LET j == 3 - i
                scanned == extract_price_info(<<docs[j]>>)
            IN  (HasPriceMetadata(docs[i]) /\ ~HasPriceMetadata(docs[j])) =>
                    \A key \in DictKeys(docs[i].metadata.price_data) \cap DictKeys(scanned) :
                        DictGet(scanned, key) # DictGet(docs[i].metadata.price_data, key)
                            => DictGet(price_info, key) = DictGet(docs[i].metadata.price_data, key)

\* the number of sentence boundaries of t: whitespace right after '.', '!' or '?'
Boundaries(t) ==
    Cardinality({k \in 2..Len(t) : t[k] \in Space /\ t[k - 1] \in Terminators})

\* the number of sentences ensure_sentence_limit sees in t
Sentences(t) == Boundaries(Strip(t)) + 1

EndsInTerminator(t) == t # <<>> /\ t[Len(t)] \in Terminators

\* t is sentences that each end in a single terminator, separated by single spaces
PlainSentences(t) ==
    LET parts == ReSplit(SENTENCE_PATTERN, t)
    IN  /\ t = Join(<<" ">>, parts)
        /\ \A k \in 1..Len(parts) :
              /\ Len(parts[k]) >= 2
              /\ parts[k][1] \notin Space
              /\ parts[k][Len(parts[k])] \in Terminators
              /\ parts[k][Len(parts[k]) - 1] \notin Terminators

\* C7: for a text of more than max_sentences plain sentences (max_sentences
\* at least 1), ensure_sentence_limit returns the first max_sentences
\* sentences, each with its own terminator, separated by single spaces;
\* 'A. B. C. D.' with 2 gives 'A. B.'.
C7_FirstSentencesKept ==
    (/\ limited.calls >= 1
     /\ max_sentences >= 1
     /\ PlainSentences(text)
     /\ Len(ReSplit(SENTENCE_PATTERN, text)) > max_sentences)
        => limited.first = Join(<<" ">>, SubSeq(ReSplit(SENTENCE_PATTERN, text), 1, max_sentences))

\* C8: a text that has at most max_sentences sentences is returned as it is,
\* with its leading and trailing whitespace and without an added terminator.
C8_WithinLimitUnchanged ==
    (limited.calls >= 1 /\ Sentences(text) <= max_sentences) => limited.first = text

\* C8 happens: a text within the limit that has surrounding whitespace and no
\* final terminator has been returned.
C8_Witness ==
    /\ limited.calls >= 1
    /\ Sentences(text) <= max_sentences
    /\ Strip(text) # text
    /\ Strip(text) # <<>>
    /\ ~EndsInTerminator(Strip(text))
    /\ limited.first = text

\* C9 as stated: for every text and every max_sentences the result ends in
\* '.', '!' or '?'.
C9_AlwaysEndsInTerminator ==
    limited.calls >= 1 => EndsInTerminator(limited.first)

\* C9 amended: for every text that has more than max_sentences sentences the
\* result ends in '.', '!' or '?'.
C9_LimitedEndsInTerminator ==
    (limited.calls >= 1 /\ Sentences(text) > max_sentences) => EndsInTerminator(limited.first)

\* C9 happens: a text without a final terminator has been cut down to the limit.
C9_Witness ==
    /\ limited.calls >= 1
    /\ Sentences(text) > max_sentences
    /\ ~EndsInTerminator(Strip(text))
    /\ limited.first # text
    /\ EndsInTerminator(limited.first)

\* C10: for max_sentences at least 1 the result has at most max_sentences
\* sentences under the same boundary pattern, and limiting it again with the
\* same limit returns it unchanged.
C10_LimitIsIdempotent ==
    (limited.calls = 2 /\ max_sentences >= 1) =>
        /\ Sentences(limited.first) <= max_sentences
        /\ count_sentences(limited.first) <= max_sentences
        /\ limited.second = limited.first

\* C10 happens: a text was cut down to two or more sentences and limited again.
C10_Witness ==
    /\ limited.calls = 2
    /\ max_sentences >= 2
    /\ Sentences(text) > max_sentences
    /\ limited.first # text
    /\ limited.second = limited.first

\* C11: normalize_treatment_name is idempotent (applied to its own result it
\* returns that result), in src/pattern_matching.py and in src/utils.py, and
\* the memoized function returns the same value for the same argument on
\* every call, whether the call was answered from the cache or computed.
C11_NormalizeIdempotentMemoStable ==
    /\ normalized.calls = 2 =>
         /\ normalized.second = normalized.first
         /\ normalized.utils_second = normalized.utils_first
    /\ \A i, j \in 1..Len(norm_log) :
         norm_log[i].arg = norm_log[j].arg => norm_log[i].val = norm_log[j].val

\* name_a is changed by normalization, and one argument was computed on one
\* call and answered from the cache on a later one
C11_Witness ==
    /\ normalized.calls = 2
    /\ normalized.first # name_a
    /\ normalized.first # <<>>
    /\ \E i, j \in 1..Len(norm_log) :
         /\ i < j
         /\ norm_log[i].arg = norm_log[j].arg
         /\ ~norm_log[i].hit
         /\ norm_log[j].hit
         /\ Len(norm_cache) = 2

\* the three ways two normalized names match
SameNormalized(na, nb) == na = nb
OneInsideTheOther(na, nb) == Contains(nb, na) \/ Contains(na, nb)
WordsOverlap(na, nb) ==
    LET wa == {Words(na)[k] : k \in 1..Len(Words(na))}
        wb == {Words(nb)[k] : k \in 1..Len(Words(nb))}
        smaller == IF Cardinality(wa) < Cardinality(wb) THEN Cardinality(wa) ELSE Cardinality(wb)
    IN  /\ wa # {}
        /\ wb # {}
        /\ 10 * Cardinality(wa \cap wb) >= 7 * smaller

CurrencyTails == {<<"b","d","t">>, <<"t","k">>, <<"t","k",".">>, <<"t","a","k","a">>}

\* query[1..k] is a name with a non-blank character and the rest of the query
\* is a currency word in any letter case, with optional whitespace around it
IsCurrencyForm(k) ==
    /\ Strip(SubSeq(query, 1, k)) # <<>>
    /\ Strip(ToLower(SubSeq(query, k + 1, Len(query)))) \in CurrencyTails

NameOfCurrencyForm(k) == Strip(SubSeq(query, 1, k))

HasLineFeed(s) == \E n \in 1..Len(s) : s[n] = "\n"

\* C13 as stated: every query "<name> BDT|Tk|Tk.|Taka" is a price query and a
\* direct price query, and its treatment is the name, trimmed, in its
\* original letter case.
C13_CurrencyFormRecognized ==
    classification.done =>
        \A k \in 1..Len(query) :
            IsCurrencyForm(k) =>
                /\ classification.is_price_query
                /\ classification.is_direct_price_query
                /\ classification.treatment_name = Some(NameOfCurrencyForm(k))

\* C13 as amended: the same for every such query whose trimmed name contains
\* no line feed.
C13_SingleLineCurrencyFormRecognized ==
    classification.done =>
        \A k \in 1..Len(query) :
            (IsCurrencyForm(k) /\ ~HasLineFeed(NameOfCurrencyForm(k))) =>
                /\ classification.is_price_query
                /\ classification.is_direct_price_query
                /\ classification.treatment_name = Some(NameOfCurrencyForm(k))

\* a padded query with a mixed-case name and a currency word in another case
C13_Witness ==
    /\ classification.done
    /\ \E k \in 1..Len(query) :
         /\ IsCurrencyForm(k)
         /\ NameOfCurrencyForm(k) = <<"X","-","R","a","y">>
         /\ query[1] = " "
         /\ SubSeq(query, k + 1, Len(query)) \notin CurrencyTails
         /\ classification.treatment_name = Some(NameOfCurrencyForm(k))

\* the interrogative query made of a form, an article and a treatment name
InterrogativeQuery(form, article, name) == form[1] \o article \o name \o form[2]

\* C14: for the forms "how much does [a|an|the] X cost?", "what is the price of
\* [a|an|the] X?" and "price of [a|an|the] X", the extracted treatment is X,
\* lower-cased and trimmed, whole: the article is removed in full and no
\* character of X is removed.
C14_InterrogativeNameWhole ==
    classification.done =>
        \A form \in InterrogativeForms, article \in Articles, name \in TreatmentNames :
            query = InterrogativeQuery(form, article, name) =>
                classification.treatment_name = Some(Strip(ToLower(name)))

\* a document is price-bearing when its content has one of the keywords, in
\* any letter case, or a digit
IsPriceBearing(doc) ==
    \/ \E word \in {<<"p","r","i","c","e">>, <<"c","o","s","t">>, <<"b","d","t">>,
                    <<"t","a","k","a">>, <<"t","k">>} :
          Contains(ToLower(Strip(doc.page_content)), word)
    \/ \E k \in 1..Len(doc.page_content) : doc.page_content[k] \in Digits

PriceBearing == SelectSeq(ctx_docs, IsPriceBearing)
NotPriceBearing == SelectSeq(ctx_docs, LAMBDA doc : ~IsPriceBearing(doc))

AtMost(cap, n) == IF n < cap THEN n ELSE cap

HeaderParts == IF ctx_type.some /\ ctx_type.val # <<>> THEN 1 ELSE 0

\* the text an entry shows for a document
Shown(doc) ==
    LET content == Strip(doc.page_content)
    IN  IF Len(content) > 500 THEN SubSeq(content, 1, 500) ELSE content

\* C15: when the joined text is within the 4000-character budget, the output
\* is the optional "--- docType ---" header, then one "[PRICE INFO i]" entry
\* for each of the first 3 price-bearing documents, then one "[Section i]"
\* entry for each of the first 2 other documents, in input order, and nothing
\* else.
C15_CappedPartitionInOrder ==
    (context.done /\ ctx_docs # <<>> /\ Len(context.joined) <= 4000) =>
        LET parts == context.context_parts
            p == AtMost(3, Len(PriceBearing))
            o == AtMost(2, Len(NotPriceBearing))
        IN  /\ context.result = Join(<<"\n", "\n">>, parts)
            /\ Len(parts) = HeaderParts + p + o
            /\ HeaderParts = 1 =>
                  parts[1] = <<"-","-","-"," ">> \o ctx_type.val \o <<" ","-","-","-">>
            /\ \A i \in 1..p :
                  /\ StartsWith(parts[HeaderParts + i],
                        <<"[","P","R","I","C","E"," ","I","N","F","O"," ">> \o IntStr(i) \o <<"]">>)
                  /\ Contains(parts[HeaderParts + i], <<":"," ">> \o Shown(PriceBearing[i]))
            /\ \A i \in 1..o :
                  /\ StartsWith(parts[HeaderParts + p + i],
                        <<"[","S","e","c","t","i","o","n"," ">> \o IntStr(i) \o <<"]">>)
                  /\ Contains(parts[HeaderParts + p + i], <<":"," ">> \o Shown(NotPriceBearing[i]))

\* the cap on other documents bites, under a header, and a price-bearing
\* document that came after another document is moved before it
C15_Witness ==
    /\ context.done
    /\ Len(context.joined) <= 4000
    /\ HeaderParts = 1
    /\ Len(NotPriceBearing) > 2
    /\ NotPriceBearing[1] # NotPriceBearing[2]
    /\ Len(PriceBearing) >= 1
    /\ ~IsPriceBearing(ctx_docs[1])
    /\ Len(context.context_parts) = 1 + Len(PriceBearing) + 2

\* the number of places where sub occurs in s
CountOf(s, sub) ==
    Cardinality({k \in 0..(Len(s) - Len(sub)) : SubSeq(s, k + 1, k + Len(sub)) = sub})

\* C16: whatever template and disclaimer are drawn, the direct price response
\* contains the trimmed, title-cased treatment, contains "<price>.00 BDT"
\* exactly once, and ends with one of the four disclaimers.
C16_DirectPriceResponseShape ==
    response.step = "format_direct_price_response" =>
        /\ ~response.raised
        /\ Contains(response.val, Title(Strip(arg_treatment)))
        /\ CountOf(response.val, Strip(arg_price) \o <<".","0","0"," ","B","D","T">>) = 1
        /\ \E k \in 1..4 :
              EndsWith(response.val, RESPONSE_VARIATIONS.price_disclaimer[k])

\* a padded lower-case treatment and a padded price went in
C16_Witness ==
    /\ response.step = "format_direct_price_response"
    /\ arg_treatment = <<" ","r","o","o","t"," ","c","a","n","a","l"," ">>
    /\ arg_price = <<" ","1","2","0","0"," ">>
    /\ Contains(response.val,
            <<"R","o","o","t"," ","C","a","n","a","l"," ","c","o","s","t","s"," ",
              "1","2","0","0",".","0","0"," ","B","D","T">>)

\* the keys of price_map that the draft mentions, ignoring case
Mentions(key) == Contains(ToLower(draft), ToLower(key))

MentionsAKey == \E k \in 1..Len(price_map) : Mentions(price_map[k][1])

\* the first item of price_map, in map order, whose key the draft mentions
FirstMentioned ==
    price_map[CHOOSE k \in 1..Len(price_map) :
                /\ Mentions(price_map[k][1])
                /\ \A j \in 1..(k - 1) : ~Mentions(price_map[j][1])]

\* where the first occurrence of key in the draft, ignoring case, ends
EndOfFirstOccurrence(key) ==
    CHOOSE e \in Len(key)..Len(draft) :
        /\ ToLower(SubSeq(draft, e - Len(key) + 1, e)) = ToLower(key)
        /\ \A f \in Len(key)..(e - 1) :
              ToLower(SubSeq(draft, f - Len(key) + 1, f)) # ToLower(key)

\* the draft with " costs <price>.00 BDT" put in after the first occurrence
\* of the first mentioned key
DraftWithPriceInserted ==
    LET e == EndOfFirstOccurrence(FirstMentioned[1])
    IN  SubSeq(draft, 1, e) \o <<" ","c","o","s","t","s"," ">> \o FirstMentioned[2]
            \o <<".","0","0"," ","B","D","T">> \o SubSeq(draft, e + 1, Len(draft))

\* s has a "<number>.00 BDT" substring
HasCanonicalPrice(s) ==
    \E k \in 1..Len(s) :
        s[k] \in Digits /\ StartsWith(SubSeq(s, k + 1, Len(s)), <<".","0","0"," ","B","D","T">>)

\* s has digits followed, optionally after ".00" and whitespace, by "BDT" or "Tk"
HasPriceText(s) ==
    \E k \in 1..Len(s), j \in 1..(Len(s) + 1) :
        /\ s[k] \in Digits
        /\ k < j
        /\ \/ \A n \in (k + 1)..(j - 1) : s[n] \in Space
           \/ /\ j > k + 3
              /\ SubSeq(s, k + 1, k + 3) = <<".","0","0">>
              /\ \A n \in (k + 4)..(j - 1) : s[n] \in Space
        /\ \/ StartsWith(SubSeq(s, j, Len(s)), <<"B","D","T">>)
           \/ StartsWith(SubSeq(s, j, Len(s)), <<"T","k">>)

\* C17 as stated: a draft without a "<number>.00 BDT" substring that mentions
\* a key of the price map comes back with " costs <price>.00 BDT" inserted
\* right after the first occurrence of the first such key, and otherwise
\* unchanged.
C17_PriceInsertedAfterFirstMention ==
    (/\ response.step = "format_price_response"
     /\ price_map # <<>>
     /\ ~HasCanonicalPrice(draft)
     /\ MentionsAKey)
        => response.val = DraftWithPriceInserted

\* C17 as amended: the same for a draft that has no price text at all, neither
\* " BDT" nor digits followed by "BDT" or "Tk".
C17_PriceInsertedWhenNoPriceText ==
    (/\ response.step = "format_price_response"
     /\ price_map # <<>>
     /\ ~Contains(draft, <<" ","B","D","T">>)
     /\ ~HasPriceText(draft)
     /\ MentionsAKey)
        => response.val = DraftWithPriceInserted

\* the key is mentioned twice in different letter case, and it is not the
\* first key of the map
C17_Witness ==
    /\ response.step = "format_price_response"
    /\ Len(price_map) = 2
    /\ ~Mentions(price_map[1][1])
    /\ Mentions(price_map[2][1])
    /\ ~Contains(draft, <<" ","B","D","T">>)
    /\ ~HasPriceText(draft)
    /\ CountOf(ToLower(draft), ToLower(price_map[2][1])) = 2
    /\ response.val = DraftWithPriceInserted
    /\ response.val # draft

\* the draft followed by the sentence "The cost for <treatment> is
\* <price>.00 BDT.", after a closing period when the draft has 80 characters
\* or more
DraftWithSentence(item) ==
    draft
    \o (IF Len(draft) >= 80 /\ ~EndsWith(draft, <<".">>) THEN <<".">> ELSE <<>>)
    \o <<" ","T","h","e"," ","c","o","s","t"," ","f","o","r"," ">> \o item[1]
    \o <<" ","i","s"," ">> \o item[2] \o <<".","0","0"," ","B","D","T",".">>

\* C18: a draft without a price that mentions no key of a non-empty price map
\* comes back followed by the sentence "The cost for <treatment> is
\* <price>.00 BDT." for an item of the map.
C18_SentenceAppendedWhenNotMentioned ==
    (/\ response.step = "format_price_response"
     /\ price_map # <<>>
     /\ ~Contains(draft, <<" ","B","D","T">>)
     /\ ~HasPriceText(draft)
     /\ ~MentionsAKey)
        => \E k \in 1..Len(price_map) : response.val = DraftWithSentence(price_map[k])

\* every "BDT" of s ends a "<digits>.00 BDT", there is one, and s has no "Tk"
AllPricesCanonical(s) ==
    /\ HasCanonicalPrice(s)
    /\ ~Contains(s, <<"T","k">>)
    /\ \A k \in 1..(Len(s) - 2) :
          SubSeq(s, k, k + 2) = <<"B","D","T">> =>
              /\ k > 5
              /\ SubSeq(s, k - 4, k - 1) = <<".","0","0"," ">>
              /\ s[k - 5] \in Digits

\* C19: a text whose prices are all written "<digits>.00 BDT" comes back
\* unchanged from format_price_response with a non-empty price map, in
\* response_formatter.py and in utils.py, and so does its result.
C19_CanonicalPricesUnchanged ==
    (/\ response.step \in {"format_price_response", "utils.format_price_response"}
     /\ price_map # <<>>
     /\ AllPricesCanonical(draft))
        => /\ response.val = draft
           /\ response.calls = 2 => response.second = response.val

\* C20: no step of the response pipeline raises: add_human_touch,
\* ensure_sentence_limit, format_price_response and format_response return a
\* string for every string, the empty one included, under every random draw.
C20_NoStepRaises ==
    response.step \in {"add_human_touch", "utils.add_human_touch", "ensure_sentence_limit",
                       "format_price_response", "utils.format_price_response",
                       "format_response"}
        => ~response.raised

(***************************************************************************)
(* Claims C21..C28                                                         *)
(***************************************************************************)

\* what the highest-priority rule whose condition holds for doc does to d,
\* when no other rule runs
ByFirstRule(d, doc) ==
    LET content == doc.page_content
        rs == RulesFor(doc)
    IN  IF "metadata" \in rs THEN DictUpdate(d, doc.metadata.price_data)
        ELSE IF "pattern" \in rs
             THEN RecordMatches(d, content, FindAllFrom(TREATMENT_PRICE_PATTERN, content, 1))
        ELSE IF "line" \in rs THEN LineRule(d, content)
        ELSE IF "fallback" \in rs THEN FallbackRule(d, content)
        ELSE d

\* C21: what a document does to the price map is the work of one rule of the
\* cascade, the first of metadata, name-price pattern, line heuristic and
\* whole-document fallback whose condition holds for it: no rule after that
\* one adds or changes an entry for the same document.
C21_OneRulePerDocument ==
    [][doc_idx' = doc_idx + 1
        => price_info' = ByFirstRule(price_info, docs[doc_idx + 1])]_vars

\* C22: the whole-document fallback only ever appends: when its condition
\* holds for a document, the map it leaves has every entry of the map it
\* received (the one the line heuristic left) at the same place with the same
\* price, and at most one more entry, whose key was not in the map.
C22_FallbackKeepsEntries ==
    [][(doc_idx' = doc_idx + 1 /\ "fallback" \in RulesFor(docs[doc_idx + 1]))
        => LET received == LineRule(price_info, docs[doc_idx + 1].page_content)
           IN  /\ Len(price_info') \in {Len(received), Len(received) + 1}
               /\ SubSeq(price_info', 1, Len(received)) = received
               /\ Len(price_info') = Len(received) + 1
                    => price_info'[Len(price_info')][1] \notin DictKeys(received)]_vars

\* the fallback has run for a second document whose first content word,
\* "filling", already had another price from the first document, and for a
\* first document where it added the key
C22_Witness ==
    /\ doc_idx = 2
    /\ rules = <<{"fallback"}, {"fallback"}>>
    /\ docs[1].page_content = <<"c","h","a","r","g","e"," ","2","5","0"," ","f","i","l","l","i","n","g">>
    /\ docs[2].page_content = <<"f","i","l","l","i","n","g"," ","c","h","a","r","g","e"," ","9","0">>
    /\ price_info = << <<<<"f","i","l","l","i","n","g">>, <<"2","5","0">>>> >>

\* C23: when the text given to add_human_touch of utils.py contains a stock
\* phrase, at its start or further on, the text returned contains a phrase of
\* the matching category of RESPONSE_VARIATIONS (uncertainty, pricing_unknown)
\* in its place, whatever the random draws are, a prepended transition included.
C23_StockPhraseReplaced ==
    (response.step = "utils.add_human_touch" /\ ~response.raised)
        => /\ Contains(draft, <<"I"," ","d","o","n","'","t"," ","h","a","v","e"," ","i","n","f","o","r","m","a","t","i","o","n"," ","a","b","o","u","t"," ","t","h","a","t"," ","i","n"," ","m","y"," ","d","a","t","a","b","a","s","e">>)
                => \E u \in 1..Len(utils_RESPONSE_VARIATIONS.uncertainty) :
                      Contains(response.val, utils_RESPONSE_VARIATIONS.uncertainty[u])
           /\ Contains(draft, <<"I"," ","d","o","n","'","t"," ","h","a","v","e"," ","p","r","i","c","i","n","g"," ","i","n","f","o","r","m","a","t","i","o","n"," ","a","b","o","u","t"," ","t","h","a","t"," ","i","n"," ","m","y"," ","d","a","t","a","b","a","s","e">>)
                => \E p \in 1..Len(utils_RESPONSE_VARIATIONS.pricing_unknown) :
                      Contains(response.val, utils_RESPONSE_VARIATIONS.pricing_unknown[p])

\* C24: a query classified as a direct price query is classified as a price
\* query too.
C24_DirectImpliesPrice ==
    (classification.done /\ classification.is_direct_price_query)
        => classification.is_price_query

\* C25: treatments_match gives the same answer for (a, b) as for (b, a): any
\* two calls of the plain function of pattern_matching.py with the arguments
\* exchanged return the same value, and so do any two calls of the memoized
\* function of utils.py, in whatever order the calls were made and whether
\* they were computed or answered from the cache.
C25_MatchSymmetric ==
    \A i, j \in 1..Len(match_log) :
        (/\ match_log[i].memoized = match_log[j].memoized
         /\ match_log[i].query = match_log[j].treatment
         /\ match_log[i].treatment = match_log[j].query)
            => match_log[i].val = match_log[j].val

\* both functions were called on ('root canal', 'canal root') and on the
\* exchanged pair, where one normalized name is neither the other nor inside
\* it; the memoized one answered a repeated call from its cache
C25_Witness ==
    /\ Len(match_log) = 3
    /\ name_a = <<"c","a","n","a","l"," ","r","o","o","t">>
    /\ name_b = <<"r","o","o","t"," ","c","a","n","a","l">>
    /\ \E i, j \in 1..3 :
         /\ match_log[i].memoized /\ match_log[j].memoized
         /\ match_log[i].query = name_a /\ match_log[j].query = name_b
    /\ match_log[3].hit

\* C26: a name without content matches no name that has some: when exactly
\* one of the two names normalizes to the empty string, treatments_match
\* returns false.
C26_EmptyNameNeverMatches ==
    (/\ matched.done
     /\ (normalize_treatment_name(name_a) = <<>>) # (normalize_treatment_name(name_b) = <<>>))
        => ~matched.result

\* C27: while in_maintenance_mode is true, a request to /api/chat, /chat,
\* /api/price or /api/clear-cache calls neither process_query nor
\* clear_caches and leaves the caches as they are; it is answered with one
\* of the MAINTENANCE_RESPONSES or with the 503 error of /api/clear-cache.
C27_MaintenanceTouchesNothing ==
    [][(in_maintenance_mode /\ served' = served + 1)
        => /\ caches' = caches
           /\ reply'.invoked = <<>>
           /\ reply'.route \in {"/api/chat", "/chat", "/api/price", "/api/clear-cache"}
           /\ \/ /\ reply'.maintenance_mode
                 /\ \E m \in 1..Len(MAINTENANCE_RESPONSES) :
                       reply'.text = MAINTENANCE_RESPONSES[m]
              \/ /\ reply'.route = "/api/clear-cache"
                 /\ reply'.status = 503]_vars

\* in maintenance mode, a second request was served and it asked to clear
\* the caches
C27_Witness ==
    /\ in_maintenance_mode
    /\ served = 2
    /\ reply.route = "/api/clear-cache"
    /\ reply.status = 503

\* C28: out of maintenance mode, a request to /api/chat that carries a
\* 'message' is answered with status 200 and a non-empty 'response': what
\* process_query returned when that is a non-empty text, and one of the
\* ERROR_RESPONSES when it returned nothing, raised, or was not reached
\* because handling the message raised before.
C28_ChatAlwaysAnswers ==
    (/\ served > 0
     /\ ~in_maintenance_mode
     /\ reply.route = "/api/chat"
     /\ reply.request.kind \in {"number", "text"})
        => /\ reply.status = 200
           /\ reply.key = "response"
           /\ reply.text # <<>>
           /\ IF /\ reply.invoked = <<"process_query">>
                 /\ reply.outcome.kind = "text"
                 /\ reply.outcome.val # <<>>
              THEN reply.text = reply.outcome.val
              ELSE \E e \in 1..Len(ERROR_RESPONSES) : reply.text = ERROR_RESPONSES[e]

\* process_query raised on a message and the client got an error response
\* with status 200
C28_Witness ==
    /\ ~in_maintenance_mode
    /\ reply.route = "/api/chat"
    /\ reply.request.kind = "text"
    /\ reply.invoked = <<"process_query">>
    /\ reply.outcome.kind = "raised"
    /\ reply.status = 200
    /\ reply.text = ERROR_RESPONSES[2]
====
